---------------------------- MODULE Spec2Model ----------------------------
(***************************************************************************)
(* A model of NTRClientJS (ntrclient.js, compiled from ntrclient.ts): the  *)
(* byte reassembler SocketBase, the socket wrapper NativeSocket and the    *)
(* protocol client NtrClient with its decode loop, its request table and   *)
(* its heartbeat.                                                          *)
(*                                                                         *)
(* Bytes are numbers 0..255, buffers are sequences of bytes.  A JavaScript *)
(* promise is a record with a state (pending, resolved, rejected); calling *)
(* resolve or reject on a settled promise changes nothing.                 *)
(*                                                                         *)
(* SpecR drives SocketBase alone (any caller may read, feed, disconnect),   *)
(* Spec drives a whole NtrClient against a device and a network, SpecSend  *)
(* drives the commands of a client whose device stays silent, SpecSearch   *)
(* drives one call of search, SpecParse hands one text reply to its        *)
(* parser, SpecCodec decodes one header written by sendPacket, and SpecEnd *)
(* is Spec without the timer, with the requests pending at disconnect()    *)
(* noted.                                                                  *)
(***************************************************************************)
EXTENDS Integers, Sequences, FiniteSets, TLC

VARIABLES
    currentBuffer,   \* SocketBase.currentBuffer : the bytes fed and not yet consumed
    byteOffset,      \* currentBuffer.byteOffset modulo 4: where the view starts in its ArrayBuffer
    nextPromises,    \* SocketBase.nextPromises  : queue of [id, length] of pending reads
    disconnected,    \* SocketBase.disconnected
    reads,           \* the promises returned by read(): id -> [length, state, data, error]
    fedCount,        \* SpecR: the number of bytes fed so far (the k-th fed byte has value k)
    seqNumber,       \* NtrClient.seqNumber
    canSendHeartbeat,\* NtrClient.canSendHeartbeat
    promises,        \* NtrClient.promises : the request table, key -> [type]
    requests,        \* the promises returned by the request commands, by table key
    connectedCallback, \* NtrClient.connectedCallback is set
    heartbeatId,     \* the interval timer: "unset", "running" or "cleared"
    sock,            \* the net.Socket: [connecting, ended, closed], and atEnd: the
                     \* keys of the requests pending when it was ended (history)
    written,         \* the sock.write calls so far, each [part, bytes]
    wire,            \* bytes of the frames sent that the socket has not yet delivered
    sentFrames,      \* the number of frames the device has sent
    loop,            \* the decode loop handleData: [pc, cmd, seq], awaiting reads["loop"]
    dispatched,      \* the frames passed to handlePacket so far (history)
    beats,           \* what each timer tick since the last cmd-0 frame did (history)
    connectNTR,      \* connectNTR: [connected, state, error, calls] of its promise
    scan,            \* one call of search: its position, locals and promise
    call             \* one call of a pure function: its input and its result

sbVars == <<currentBuffer, byteOffset, nextPromises, disconnected, reads, fedCount>>

clientVars ==
    <<seqNumber, canSendHeartbeat, promises, requests, connectedCallback,
      heartbeatId, sock, written, wire, sentFrames, loop, dispatched, beats,
      connectNTR>>

searchVars == <<scan>>

callVars == <<call>>

vars == <<sbVars, clientVars, searchVars, callVars>>

-----------------------------------------------------------------------------
(* Bounds of the reassembler specification SpecR *)

MaxReads == 3

MaxReadLen == 3

MaxChunk == 3

MaxFeed == 6

(* Bounds of the client specification Spec *)

MaxPackets == 2

MaxFrames == 2

\* timer ticks between two cmd-0 frames
MaxTicks == 2

(* Bounds of the search specification SpecSearch *)

MaxLocations == 2

MaxRegions == 2

\* whole words in a buffer read
MaxWords == 2

(* Bounds of the parser specification SpecParse *)

\* list lines (processes, regions, handles) and lines of a one-line reply
MaxParts == 2

\* thread runs in a thread list
MaxRuns == 1

\* recommended pc words, and recommended lr words
MaxWordLines == 1

(* Bound of the codec specification SpecCodec *)

\* arguments given to sendPacket
MaxGiven == 17

-----------------------------------------------------------------------------
(* Uint8Array helpers *)

Min(a, b) == IF a < b THEN a ELSE b

\* TypedArray.prototype.subarray(begin, end) on non-negative indices: both
\* ends are clamped to the length of the array.
subarray(buf, begin, end) ==
    SubSeq(buf, Min(begin, Len(buf)) + 1, Min(end, Len(buf)))

ConnectionClosed == "Connection closed."

\* A promise as read(n) creates it; `late' records that it was created after
\* onDisconnect (history, read by no operation).
NewPromise(n, late) ==
    [length |-> n, state |-> "pending", data |-> <<>>, error |-> "", late |-> late]

Resolved(p, d) ==
    IF p.state = "pending" THEN [p EXCEPT !.state = "resolved", !.data = d] ELSE p

Rejected(p, e) ==
    IF p.state = "pending" THEN [p EXCEPT !.state = "rejected", !.error = e] ELSE p

-----------------------------------------------------------------------------
(* SocketBase *)

\* The while loop of receiveData: the head of the queue is shifted and
\* resolved as long as its length is at most the length of the buffer.
\* `done' collects <<id, bytes>> for each promise resolved.
RECURSIVE DrainLoop(_, _, _, _)
DrainLoop(buf, queue, startOffset, done) ==
    IF queue # <<>> /\ Head(queue).length <= Len(buf)
    THEN DrainLoop(buf, Tail(queue), startOffset + Head(queue).length,
                   Append(done, [id   |-> Head(queue).id,
                                 data |-> subarray(buf, startOffset,
                                                   startOffset + Head(queue).length)]))
    ELSE [queue |-> queue, startOffset |-> startOffset, done |-> done]

\* receiveData that resolves the promises and leaves them in the queue
receiveData_KeepQueue(buf, queue, data) ==
    LET newBuffer == buf \o data
        d == DrainLoop(newBuffer, queue, 0, <<>>)
    IN  [buffer |-> IF d.startOffset > 0
                    THEN subarray(newBuffer, d.startOffset, Len(newBuffer))
                    ELSE newBuffer,
         queue  |-> queue,
         done   |-> d.done]

\* SocketBase.receiveData(data) as a function of the fields it reads.
receiveData(buf, queue, data) ==
    LET newBuffer == buf \o data
        d == DrainLoop(newBuffer, queue, 0, <<>>)
    IN  [buffer |-> IF d.startOffset > 0
                    THEN subarray(newBuffer, d.startOffset, Len(newBuffer))
                    ELSE newBuffer,
         queue  |-> d.queue,
         done   |-> d.done]

\* The promises after the resolutions `done' of a receiveData call.
AfterResolutions(ps, done) ==
    [id \in DOMAIN ps |->
        IF \E i \in 1..Len(done) : done[i].id = id
        THEN LET i == CHOOSE i \in 1..Len(done) : done[i].id = id
             IN  Resolved(ps[id], done[i].data)
        ELSE ps[id]]

\* read without the test that no earlier read is queued
readPath_IgnoreQueue(buf, queue, disc, bytes) ==
    IF bytes <= Len(buf) THEN "fast"
    ELSE IF disc THEN "closed"
    ELSE "wait"

\* SocketBase.read(bytes): which of its three returns is taken.
readPath(buf, queue, disc, bytes) ==
    IF queue = <<>> /\ bytes <= Len(buf) THEN "fast"
    ELSE IF disc THEN "closed"
    ELSE "wait"

\* SocketBase.read(bytes) as a function of the fields it reads: the promise it
\* returns and the buffer and the queue it leaves.
read(buf, queue, disc, bytes) ==
    LET path == readPath(buf, queue, disc, bytes)
    IN  CASE path = "fast" ->
               [promise |-> Resolved(NewPromise(bytes, disc), subarray(buf, 0, bytes)),
                buffer  |-> subarray(buf, bytes, Len(buf)),
                queued  |-> FALSE]
          [] path = "closed" ->
               [promise |-> Rejected(NewPromise(bytes, disc), ConnectionClosed),
                buffer  |-> buf,
                queued  |-> FALSE]
          [] OTHER ->
               [promise |-> NewPromise(bytes, disc),
                buffer  |-> buf,
                queued  |-> TRUE]

\* onDisconnect that forgets the queued promises without rejecting them
onDisconnectPromises_Forget(ps, queue) == ps

\* SocketBase.onDisconnect(): the promises after every queued one is rejected.
onDisconnectPromises(ps, queue) ==
    [id \in DOMAIN ps |->
        IF \E i \in 1..Len(queue) : queue[i].id = id
        THEN Rejected(ps[id], ConnectionClosed)
        ELSE ps[id]]

-----------------------------------------------------------------------------
(* Frame codec: the 84-byte header, all fields little-endian *)

HeaderLen == 84

Magic == 305419896

MaxArgs == 16

SeqStart == 1000

SeqStep == 1000

ReadMemoryOffset == 1000

\* DataView.setUint32(offset, x, true): the four bytes of x modulo 2^32
\* (floor division and non-negative remainder give two's complement).
LE32(x) ==
    << x % 256, (x \div 256) % 256, (x \div 65536) % 256, (x \div 16777216) % 256 >>

\* DataView.getUint32(offset, true), the offset counted from 0.
getUint32(buf, offset) ==
    buf[offset + 1] + 256 * buf[offset + 2] + 65536 * buf[offset + 3]
        + 16777216 * buf[offset + 4]

\* The 64 argument bytes of sendPacket: slot i holds args[i] for the first
\* min(16, args.length) arguments, the other slots stay zero.
RECURSIVE ArgBytes(_, _)
ArgBytes(args, i) ==
    IF i > MaxArgs THEN <<>>
    ELSE LE32(IF i <= Min(MaxArgs, Len(args)) THEN args[i] ELSE 0) \o ArgBytes(args, i + 1)

\* The header sendPacket writes.
EncodeHeader(seq, type, cmd, args, dataLen) ==
    LE32(Magic) \o LE32(seq) \o LE32(type) \o LE32(cmd) \o ArgBytes(args, 1)
        \o LE32(dataLen)

\* Uint32Array.BYTES_PER_ELEMENT
WordLen == 4

\* the byteOffset, modulo 4, of view.subarray(begin) for a view at `offset'
subarrayOffset(offset, begin) == (offset + begin) % WordLen

\* new Uint32Array(cmdBuf.buffer, cmdBuf.byteOffset + 16, 16) in handleData:
\* a RangeError is thrown unless the start is a multiple of 4
ArgsViewOk(offset) == (offset + 16) % WordLen = 0

\* The fields handleData reads from the 84 bytes of a header.
DecodeHeader(cmdBuf) ==
    [magic   |-> getUint32(cmdBuf, 0),
     seq     |-> getUint32(cmdBuf, 4),
     type    |-> getUint32(cmdBuf, 8),
     cmd     |-> getUint32(cmdBuf, 12),
     args    |-> [i \in 1..MaxArgs |-> getUint32(cmdBuf, 16 + 4 * (i - 1))],
     dataLen |-> getUint32(cmdBuf, 80)]

-----------------------------------------------------------------------------
(* Text: a string is a sequence of characters (one-character strings) *)

Printable ==
    <<" ", "!", "\"", "#", "$", "%", "&", "'", "(", ")", "*", "+", ",",
      "-", ".", "/", "0", "1", "2", "3", "4", "5", "6", "7", "8", "9",
      ":", ";", "<", "=", ">", "?", "@", "A", "B", "C", "D", "E", "F",
      "G", "H", "I", "J", "K", "L", "M", "N", "O", "P", "Q", "R", "S",
      "T", "U", "V", "W", "X", "Y", "Z", "[", "\\", "]", "^", "_", "<grave>",
      "a", "b", "c", "d", "e", "f", "g", "h", "i", "j", "k", "l", "m",
      "n", "o", "p", "q", "r", "s", "t", "u", "v", "w", "x", "y", "z",
      "{", "|", "}", "~">>

\* TextDecoder().decode on one ASCII byte; "<grave>" is the grave accent and
\* "<?>" stands for a character that is none of the listed ones (the model
\* feeds no byte above 127).
Chr(b) ==
    IF b = 10 THEN "\n"
    ELSE IF b = 13 THEN "\r"
    ELSE IF b = 9 THEN "\t"
    ELSE IF b \in 32..126 THEN Printable[b - 31]
    ELSE "<?>"

\* dataToString(data)
dataToString(data) == [i \in 1..Len(data) |-> Chr(data[i])]

\* the byte of an ASCII character (the device's encoder)
Code(c) == CHOOSE b \in 0..127 : Chr(b) = c

Bytes(text) == [i \in 1..Len(text) |-> Code(text[i])]

LineTerminators == {"\n", "\r"}

\* the least element of a non-empty set of numbers
Least(S) == CHOOSE x \in S : \A y \in S : x <= y

\* str.split(sep) for a set of one-character separators: the pieces between
\* consecutive separators, the empty ones included
SplitAt(str, seps) ==
    LET cuts == {i \in 1..Len(str) : str[i] \in seps} \cup {0, Len(str) + 1}
        cut[k \in 1..Cardinality(cuts)] ==
            CHOOSE p \in cuts : Cardinality({q \in cuts : q < p}) = k - 1
    IN  [k \in 1..(Cardinality(cuts) - 1) |-> SubSeq(str, cut[k] + 1, cut[k + 1] - 1)]

NonEmpty(s) == s # <<>>

\* str.match(/^.+$/gm): the maximal non-empty runs of characters other than
\* line terminators, in order.
SplitLines(str) == SelectSeq(SplitAt(str, LineTerminators), NonEmpty)

\* The value of `lines' in handlePacket: [] without payload, otherwise the
\* result of match, which is null when nothing matches.
linesOf(data) ==
    IF data = <<>> THEN [null |-> FALSE, v |-> <<>>]
    ELSE LET ls == SplitLines(dataToString(data))
         IN  [null |-> ls = <<>>, v |-> ls]

HexOrder == <<"0", "1", "2", "3", "4", "5", "6", "7", "8", "9", "a", "b", "c", "d", "e", "f">>

HexUpper == <<"0", "1", "2", "3", "4", "5", "6", "7", "8", "9", "A", "B", "C", "D", "E", "F">>

HexDigits == {HexOrder[i] : i \in 1..16}

HexValue(c) ==
    IF c \in HexDigits THEN (CHOOSE i \in 1..16 : HexOrder[i] = c) - 1
    ELSE (CHOOSE i \in 1..16 : HexUpper[i] = c) - 1

\* parseInt(s, 16) of a string of lower-case hex digits
RECURSIVE ParseHex(_)
ParseHex(s) ==
    IF s = <<>> THEN 0
    ELSE 16 * ParseHex(SubSeq(s, 1, Len(s) - 1)) + HexValue(s[Len(s)])

\* the literal `lit' stands in `line' at position pos (from 1)
At(line, pos, lit) ==
    /\ pos + Len(lit) - 1 <= Len(line)
    /\ SubSeq(line, pos, pos + Len(lit) - 1) = lit

\* [\da-f]{n} stands in `line' at position pos
HexAt(line, pos, n) ==
    /\ pos + n - 1 <= Len(line)
    /\ \A i \in pos..(pos + n - 1) : line[i] \in HexDigits

(* The literals of the text grammars *)

T_hello == <<"h", "e", "l", "l", "o">>

T_finished == <<"f", "i", "n", "i", "s", "h", "e", "d">>

T_endOfProcessList == <<"e", "n", "d", " ", "o", "f", " ", "p", "r", "o", "c", "e", "s", "s", " ", "l", "i", "s", "t", ".">>

T_validMemregions == <<"v", "a", "l", "i", "d", " ", "m", "e", "m", "r", "e", "g", "i", "o", "n", "s", ":">>

T_endOfMemlayout == <<"e", "n", "d", " ", "o", "f", " ", "m", "e", "m", "l", "a", "y", "o", "u", "t", ".">>

T_done == <<"d", "o", "n", "e">>

T_recommendPc == <<"r", "e", "c", "o", "m", "m", "e", "n", "d", " ", "p", "c", ":">>

T_recommendLr == <<"r", "e", "c", "o", "m", "m", "e", "n", "d", " ", "l", "r", ":">>

T_tid == <<"t", "i", "d", ":", " ">>

T_tid0x == <<"t", "i", "d", ":", " ", "0", "x">>

T_pid0x == <<"p", "i", "d", ":", " ", "0", "x">>

T_pname == <<",", " ", "p", "n", "a", "m", "e", ":">>

T_ctid == <<",", " ", "t", "i", "d", ":", " ">>

T_kpobj == <<",", " ", "k", "p", "o", "b", "j", ":", " ">>

T_pc == <<"p", "c", ":", " ">>

T_lr == <<",", " ", "l", "r", ":", " ">>

T_h == <<"h", ":", " ">>

T_p == <<",", " ", "p", ":", " ">>

T_dash == <<" ", "-", " ">>

T_size == <<" ", ",", " ", "s", "i", "z", "e", ":", " ">>

-----------------------------------------------------------------------------
(* Response parsers.  Each handler is modelled by what it does with the    *)
(* promise of the matched entry: resolve(value), reject(error), nothing,   *)
(* or an exception that leaves the handler.                                *)

DoResolve(v) == [act |-> "resolve", value |-> v, error |-> ""]

DoReject(e) == [act |-> "reject", value |-> <<>>, error |-> e]

DoNothing == [act |-> "none", value |-> <<>>, error |-> ""]

DoThrow == [act |-> "throw", value |-> <<>>, error |-> "TypeError"]

Last(ls) == ls[Len(ls)]

\* lines.slice(0, -1)
AllButLast(ls) == SubSeq(ls, 1, Len(ls) - 1)

Drop(s, n) == SubSeq(s, n + 1, Len(s))

\* the number of leading characters of s that belong to set
Lead(s, set) ==
    LET others == {i \in 1..Len(s) : s[i] \notin set}
    IN  IF others = {} THEN Len(s) ELSE Least(others) - 1

\* the position of the first "," of line at or after pos, 0 when there is none
FirstComma(line, pos) ==
    LET commas == {i \in pos..Len(line) : line[i] = ","}
    IN  IF commas = {} THEN 0 ELSE Least(commas)

\* the group ([^,]+) after " *": the leading spaces go to " *", except that
\* a name made of spaces only keeps its last space
ProcName(region) ==
    LET rest == Drop(region, Lead(region, {" "}))
    IN  IF rest = <<>> THEN <<" ">> ELSE rest

\* proc.match(/^pid: 0x([\da-f]{8}), pname: *([^,]+), tid: ([\da-f]{16}), kpobj: ([\da-f]{8})$/)
matchProcess(proc) ==
    LET c == FirstComma(proc, 24)
    IN  IF /\ At(proc, 1, T_pid0x)
           /\ HexAt(proc, 8, 8)
           /\ At(proc, 16, T_pname)
           /\ c > 24
           /\ At(proc, c, T_ctid)
           /\ HexAt(proc, c + 7, 16)
           /\ At(proc, c + 23, T_kpobj)
           /\ HexAt(proc, c + 32, 8)
           /\ Len(proc) = c + 39
        THEN [ok    |-> TRUE,
              pid   |-> ParseHex(SubSeq(proc, 8, 15)),
              name  |-> ProcName(SubSeq(proc, 24, c - 1)),
              tid   |-> ParseHex(SubSeq(proc, c + 7, c + 22)),
              kpobj |-> ParseHex(SubSeq(proc, c + 32, c + 39))]
        ELSE [ok |-> FALSE]

ProcessOf(proc) ==
    LET m == matchProcess(proc)
    IN  [pid |-> m.pid, name |-> m.name, tid |-> m.tid, kpobj |-> m.kpobj]

handleProcesses(L) ==
    IF L.null THEN DoThrow
    ELSE IF L.v = <<>> \/ Last(L.v) # T_endOfProcessList
         THEN DoReject("Unexpected reply for process list.")
    ELSE LET processes == AllButLast(L.v)
         IN  IF \A i \in 1..Len(processes) : matchProcess(processes[i]).ok
             THEN DoResolve([i \in 1..Len(processes) |-> ProcessOf(processes[i])])
             ELSE DoReject("Response does not match expected format for process list.")

\* str.split(' ')
SplitSpaces(str) == SplitAt(str, {" "})

AnyHexDigits == HexDigits \cup {HexUpper[i] : i \in 1..16}

\* parseInt(tok, 16): leading white space, a sign and a 0x prefix are skipped
\* and the longest run of hex digits (of either case) is read; NaN if empty.
SkipSign(s) == IF s # <<>> /\ s[1] \in {"+", "-"} THEN Tail(s) ELSE s

SkipPrefix(s) ==
    IF Len(s) >= 2 /\ s[1] = "0" /\ s[2] \in {"x", "X"} THEN Drop(s, 2) ELSE s

ReadDigits(s, n, sign) == [nan |-> n = 0, val |-> sign * ParseHex(SubSeq(s, 1, n))]

ReadNumber(s, sign) == ReadDigits(s, Lead(s, AnyHexDigits), sign)

ReadSigned(s) ==
    ReadNumber(SkipPrefix(SkipSign(s)), IF s # <<>> /\ s[1] = "-" THEN 0 - 1 ELSE 1)

parseInt16(tok) == ReadSigned(Drop(tok, Lead(tok, {" ", "\t"})))

\* /^tid: 0x([\da-f]{8})$/
matchTid(line) == At(line, 1, T_tid0x) /\ HexAt(line, 8, 8) /\ Len(line) = 15

\* /^pc: ([\da-f]{8}), lr: ([\da-f]{8})$/
matchPcLr(line) ==
    /\ At(line, 1, T_pc) /\ HexAt(line, 5, 8)
    /\ At(line, 13, T_lr) /\ HexAt(line, 19, 8)
    /\ Len(line) = 26

RegisterWords == 32

\* the loop over the 32 register words: a word that parseInt cannot read
\* (or that is missing) throws
WordsOk(data) ==
    /\ Len(data) >= RegisterWords
    /\ \A j \in 1..RegisterWords : ~parseInt16(data[j]).nan

RegistersOk(line) == WordsOk(SplitSpaces(line))

RECURSIVE RegisterBytes(_, _)
RegisterBytes(data, j) ==
    IF j > RegisterWords THEN <<>>
    ELSE LE32(parseInt16(data[j]).val) \o RegisterBytes(data, j + 1)

ThreadOf(lines, i) ==
    [tid  |-> ParseHex(SubSeq(lines[i], 8, 15)),
     pc   |-> ParseHex(SubSeq(lines[i + 1], 5, 12)),
     lr   |-> ParseHex(SubSeq(lines[i + 1], 19, 26)),
     data |-> RegisterBytes(SplitSpaces(lines[i + 2]), 1)]

\* the first for loop of handleThreads, from line i (counted from 1)
RECURSIVE ThreadRuns(_, _, _)
ThreadRuns(lines, i, threads) ==
    IF i > Len(lines) THEN [ok |-> FALSE, i |-> i, threads |-> threads]
    ELSE IF ~At(lines[i], 1, T_tid) THEN [ok |-> TRUE, i |-> i, threads |-> threads]
    ELSE IF /\ matchTid(lines[i])
            /\ i + 2 <= Len(lines)
            /\ matchPcLr(lines[i + 1])
            /\ RegistersOk(lines[i + 2])
         THEN ThreadRuns(lines, i + 3, Append(threads, ThreadOf(lines, i)))
         ELSE [ok |-> FALSE, i |-> i, threads |-> threads]

\* /^[\da-f]{8}$/.test(line)
isHexWord(line) == Len(line) = 8 /\ HexAt(line, 1, 8)

\* the number of consecutive lines from i on that are hex words
RECURSIVE HexRun(_, _)
HexRun(lines, i) ==
    IF i <= Len(lines) /\ isHexWord(lines[i]) THEN 1 + HexRun(lines, i + 1) ELSE 0

ThreadsError == "Response does not match expected format for thread list."

\* the values of the hex words in lines from..(to - 1)
HexWords(lines, from, to) == [k \in 1..(to - from) |-> ParseHex(lines[from + k - 1])]

\* the end of handleThreads: i is the index after the 'recommend lr:' line
\* and e the index after the hex words that follow it
ThreadsEnd(lines, threads, pcs, i, e) ==
    IF e <= Len(lines) THEN DoReject(ThreadsError)
    ELSE DoResolve([threads       |-> threads,
                    recommendedPc |-> pcs,
                    recommendedLr |-> HexWords(lines, i, e)])

\* the 'recommend lr:' part: q is the index after the recommended pc words
ThreadsLr(lines, threads, pcs, q) ==
    IF q > Len(lines) \/ lines[q] # T_recommendLr THEN DoReject(ThreadsError)
    ELSE ThreadsEnd(lines, threads, pcs, q + 1, q + 1 + HexRun(lines, q + 1))

\* the 'recommend pc:' part: i is the index the thread runs stopped at and
\* q the index after the hex words that follow 'recommend pc:'
ThreadsPc(lines, threads, i, q) ==
    IF lines[i] # T_recommendPc THEN DoReject(ThreadsError)
    ELSE ThreadsLr(lines, threads, HexWords(lines, i + 1, q), q)

ThreadsAfterRuns(lines, r) ==
    IF ~r.ok THEN DoReject(ThreadsError)
    ELSE ThreadsPc(lines, r.threads, r.i, r.i + 1 + HexRun(lines, r.i + 1))

handleThreads(L) ==
    IF L.null THEN DoReject(ThreadsError)
    ELSE ThreadsAfterRuns(L.v, ThreadRuns(L.v, 1, <<>>))

\* /^([\da-f]{8}) - ([\da-f]{8}) , size: ([\da-f]{8})$/
matchRegion(region) ==
    /\ HexAt(region, 1, 8) /\ At(region, 9, T_dash)
    /\ HexAt(region, 12, 8) /\ At(region, 20, T_size)
    /\ HexAt(region, 29, 8) /\ Len(region) = 36

RegionOf(region) ==
    [start |-> ParseHex(SubSeq(region, 1, 8)),
     end   |-> ParseHex(SubSeq(region, 12, 19)),
     size  |-> ParseHex(SubSeq(region, 29, 36))]

MemlayoutError == "Response does not match expected format for memlayout."

handleMemlayout_NoTerminator(L) ==
    IF L.null \/ L.v = <<>> THEN DoReject(MemlayoutError)
    ELSE IF L.v[1] # T_validMemregions
         THEN DoReject(MemlayoutError)
    ELSE LET regions == SubSeq(L.v, 2, Len(L.v) - 1)
         IN  IF \A i \in 1..Len(regions) : matchRegion(regions[i])
             THEN DoResolve([i \in 1..Len(regions) |-> RegionOf(regions[i])])
             ELSE DoReject(MemlayoutError)

handleMemlayout(L) ==
    IF L.null \/ L.v = <<>> THEN DoReject(MemlayoutError)
    ELSE IF L.v[1] # T_validMemregions \/ Last(L.v) # T_endOfMemlayout
         THEN DoReject(MemlayoutError)
    ELSE LET regions == SubSeq(L.v, 2, Len(L.v) - 1)
         IN  IF \A i \in 1..Len(regions) : matchRegion(regions[i])
             THEN DoResolve([i \in 1..Len(regions) |-> RegionOf(regions[i])])
             ELSE DoReject(MemlayoutError)

\* /^h: ([\da-f]{8}), p: ([\da-f]{8})$/
matchHandle(handle) ==
    /\ At(handle, 1, T_h) /\ HexAt(handle, 4, 8)
    /\ At(handle, 12, T_p) /\ HexAt(handle, 17, 8)
    /\ Len(handle) = 24

HandleOf(handle) ==
    [h |-> ParseHex(SubSeq(handle, 4, 11)), p |-> ParseHex(SubSeq(handle, 17, 24))]

HandlesError == "Response does not match expected format for handles."

handleHandles(L) ==
    IF L.null \/ L.v = <<>> THEN DoReject(HandlesError)
    ELSE IF Last(L.v) # T_done THEN DoReject(HandlesError)
    ELSE LET handles == AllButLast(L.v)
         IN  IF \A i \in 1..Len(handles) : matchHandle(handles[i])
             THEN DoResolve([i \in 1..Len(handles) |-> HandleOf(handles[i])])
             ELSE DoReject(HandlesError)

handleHello(L) ==
    IF L.null THEN DoThrow
    ELSE IF Len(L.v) = 1 /\ L.v[1] = T_hello THEN DoResolve(<<>>)
    ELSE DoReject("Unexpected reply to hello: ")

handleReadMemoryText(L) ==
    IF L.null THEN DoThrow
    ELSE IF Len(L.v) # 1 \/ L.v[1] # T_finished THEN DoReject("Did not receive memory.")
    ELSE DoNothing

\* the inner switch of handlePacket on the kind of the matched entry
dispatchText(type, L) ==
    CASE type = "processes" -> handleProcesses(L)
      [] type = "threads"   -> handleThreads(L)
      [] type = "memlayout" -> handleMemlayout(L)
      [] type = "handle"    -> handleHandles(L)
      [] type = "hello"     -> handleHello(L)
      [] type = "memory"    -> handleReadMemoryText(L)
      [] OTHER              -> DoReject("No handler registered for type.")

-----------------------------------------------------------------------------
(* NtrClient: the request table and the dispatcher *)

\* the promise a request/response command returns; `calls' counts the
\* invocations of its resolve and reject callbacks, `by' is the number of
\* the dispatched frame that settled it and `sentBefore' the number of frames
\* the device had sent when the command was called (all three history)
NewRequest(type, sentBefore) ==
    [type |-> type, state |-> "pending", value |-> <<>>, error |-> "",
     calls |-> 0, by |-> 0, sentBefore |-> sentBefore]

Settle_All(reqs, key, out, n) ==
    IF out.act \notin {"resolve", "reject"} THEN reqs
    ELSE [k \in DOMAIN reqs |->
            IF reqs[k].state # "pending" THEN [reqs[k] EXCEPT !.calls = @ + 1]
            ELSE [reqs[k] EXCEPT !.calls = @ + 1,
                           !.state = IF out.act = "resolve" THEN "resolved" ELSE "rejected",
                           !.value = out.value,
                           !.error = out.error,
                           !.by    = n]]

\* resolve(value) or reject(error) on the promise of request `key', called
\* while frame number n is dispatched; a settled promise keeps its outcome
Settle(reqs, key, out, n) ==
    IF out.act \notin {"resolve", "reject"} THEN reqs
    ELSE [reqs EXCEPT ![key] =
            IF @.state # "pending" THEN [@ EXCEPT !.calls = @ + 1]
            ELSE [@ EXCEPT !.calls = @ + 1,
                           !.state = IF out.act = "resolve" THEN "resolved" ELSE "rejected",
                           !.value = out.value,
                           !.error = out.error,
                           !.by    = n]]

\* delete this.promises[seq]
Without(tbl, seq) == [k \in DOMAIN tbl \ {seq} |-> tbl[k]]

\* NtrClient.handleReadMemoryData(seq, data): what it does with the promise
\* of the entry under seq + 1000 (data = <<>> is `undefined')
handleReadMemoryData(tbl, seq, data) ==
    IF seq + ReadMemoryOffset \notin DOMAIN tbl THEN DoNothing
    ELSE IF data = <<>> THEN DoReject("Did not receive data.")
    ELSE DoResolve(data)

\* case 0 of handlePacket once the handler of the matched entry has run: an
\* exception leaves handlePacket before the entry is deleted
AfterText(tbl, reqs, seq, out, n) ==
    IF out.act = "throw"
    THEN [promises |-> tbl, requests |-> reqs, canSendHeartbeat |-> TRUE, threw |-> TRUE]
    ELSE [promises |-> Without(tbl, seq), requests |-> Settle(reqs, seq, out, n),
          canSendHeartbeat |-> TRUE, threw |-> FALSE]

\* handlePacket that lets a cmd-9 frame set the heartbeat flag as well
handlePacket_DataAcks(tbl, reqs, hb, cmd, seq, data, n) ==
    CASE cmd = 0 ->
           IF seq \notin DOMAIN tbl
           THEN [promises |-> tbl, requests |-> reqs, canSendHeartbeat |-> TRUE,
                 threw |-> FALSE]
           ELSE AfterText(tbl, reqs, seq, dispatchText(tbl[seq].type, linesOf(data)), n)
      [] cmd = 9 ->
           [promises |-> Without(tbl, seq),
            requests |-> Settle(reqs, seq + ReadMemoryOffset,
                                handleReadMemoryData(tbl, seq, data), n),
            canSendHeartbeat |-> TRUE, threw |-> FALSE]
      [] OTHER ->
           [promises |-> Without(tbl, seq), requests |-> reqs,
            canSendHeartbeat |-> hb, threw |-> FALSE]

\* NtrClient.handlePacket(cmd, seq, data) on the table tbl, the promises reqs
\* and the heartbeat flag hb, as frame number n; `threw' tells that a handler
\* threw, in which case the statements after it were not executed.
handlePacket(tbl, reqs, hb, cmd, seq, data, n) ==
    CASE cmd = 0 ->
           IF seq \notin DOMAIN tbl
           THEN [promises |-> tbl, requests |-> reqs, canSendHeartbeat |-> TRUE,
                 threw |-> FALSE]
           ELSE AfterText(tbl, reqs, seq, dispatchText(tbl[seq].type, linesOf(data)), n)
      [] cmd = 9 ->
           [promises |-> Without(tbl, seq),
            requests |-> Settle(reqs, seq + ReadMemoryOffset,
                                handleReadMemoryData(tbl, seq, data), n),
            canSendHeartbeat |-> hb, threw |-> FALSE]
      [] OTHER ->
           [promises |-> Without(tbl, seq), requests |-> reqs,
            canSendHeartbeat |-> hb, threw |-> FALSE]

-----------------------------------------------------------------------------
(* Calls of pure functions *)

\* no call has been made
NoCall == [fn |-> "", input |-> <<>>, valid |-> FALSE, expected |-> <<>>, out |-> <<>>]

-----------------------------------------------------------------------------
(* search (searchmem.js): the function as its caller and the client see it *)

\* no call of search has been made
NoSearch ==
    [pc |-> "idle", value |-> 0, given |-> FALSE, locations |-> <<>>,
     memorymap |-> <<>>, k |-> 0, res |-> <<>>, error |-> "",
     asked |-> <<>>, got |-> <<>>, layout |-> ""]

\* DataView.getUint32(i, true) throws a RangeError unless bytes i..i+3 exist
InView(data, i) == i + 4 <= Len(data)

\* res.push(addr) for every address
pushIfEqual_Always(res, data, i, value, addr) ==
    Append(res, addr)

\* if (view.getUint32(i, true) === value) res.push(addr)
pushIfEqual(res, data, i, value, addr) ==
    IF getUint32(data, i) = value THEN Append(res, addr) ELSE res

\* for (let i = 0; i < mem.byteLength; i += 4) ...: the result list, and
\* whether getUint32 threw
RECURSIVE scanRegion(_, _, _, _, _)
scanRegion(mem, start, value, i, res) ==
    IF i >= Len(mem) THEN [threw |-> FALSE, res |-> res]
    ELSE IF ~InView(mem, i) THEN [threw |-> TRUE, res |-> res]
    ELSE scanRegion(mem, start, value, i + 4,
                    pushIfEqual(res, mem, i, value, start + i))

-----------------------------------------------------------------------------
(* SpecR: SocketBase driven by an arbitrary caller *)

InitR ==
    /\ currentBuffer = <<>>
    /\ byteOffset = 0
    /\ nextPromises = <<>>
    /\ disconnected = FALSE
    /\ reads = <<>>
    /\ fedCount = 0
    /\ seqNumber = SeqStart
    /\ canSendHeartbeat = TRUE
    /\ promises = <<>>
    /\ requests = <<>>
    /\ connectedCallback = FALSE
    /\ heartbeatId = "unset"
    /\ sock = [connecting |-> FALSE, ended |-> FALSE, closed |-> FALSE, atEnd |-> {}]
    /\ written = <<>>
    /\ wire = <<>>
    /\ sentFrames = 0
    /\ loop = [pc |-> "stopped", cmd |-> 0, seq |-> 0, offset |-> 0]
    /\ dispatched = <<>>
    /\ beats = <<>>
    /\ connectNTR = [connected |-> FALSE, state |-> "pending", error |-> ""]
    /\ scan = NoSearch
    /\ call = NoCall

\* a caller issues read(n); promises are numbered in issue order
RRead ==
    \E n \in 0..MaxReadLen :
        /\ Len(reads) < MaxReads
        /\ LET id == Len(reads) + 1
               r == read(currentBuffer, nextPromises, disconnected, n)
           IN  /\ reads' = Append(reads, r.promise)
               /\ currentBuffer' = r.buffer
               /\ byteOffset' = subarrayOffset(byteOffset, Len(currentBuffer) - Len(r.buffer))
               /\ nextPromises' = IF r.queued
                                  THEN Append(nextPromises, [id |-> id, length |-> n])
                                  ELSE nextPromises
        /\ UNCHANGED <<disconnected, fedCount, clientVars, searchVars, callVars>>

\* the next chunk of the input stream is fed
RReceiveData ==
    \E n \in 0..MaxChunk :
        /\ fedCount + n <= MaxFeed
        /\ LET data == [i \in 1..n |-> fedCount + i]
               r == receiveData(currentBuffer, nextPromises, data)
           IN  /\ currentBuffer' = r.buffer
               /\ byteOffset' = subarrayOffset(0, Len(currentBuffer) + n - Len(r.buffer))
               /\ nextPromises' = r.queue
               /\ reads' = AfterResolutions(reads, r.done)
        /\ fedCount' = fedCount + n
        /\ UNCHANGED <<disconnected, clientVars, searchVars, callVars>>

ROnDisconnect ==
    /\ ~disconnected
    /\ disconnected' = TRUE
    /\ reads' = onDisconnectPromises(reads, nextPromises)
    /\ nextPromises' = <<>>
    /\ UNCHANGED <<currentBuffer, byteOffset, fedCount, clientVars, searchVars, callVars>>

NextR == RRead \/ RReceiveData \/ ROnDisconnect

SpecR == InitR /\ [][NextR]_vars

-----------------------------------------------------------------------------
(* Spec: one NtrClient created by connectNTR, its caller, the interval     *)
(* timer, the socket and the device at the other end.  Every action is one *)
(* JavaScript job: a caller's call, a timer tick, a socket event, or the   *)
(* continuation of handleData after the promise it awaits has settled.     *)

Pids == {26}

Addrs == {1048576}

Sizes == {4}

BreakpointIds == {1}

\* the buffers given to writeMemory and saveFile
Bufs == {<<>>, <<7, 8>>}

\* the file names given to saveFile
Names == {<<"a">>}

\* the third argument of addBreakpoint
BreakpointTypes == {"always", "once", "never"}

\* the arguments of remoteplay: the defaults, and another priority
Priorities == {<<0, 5>>, <<1, 2>>}

\* qosValue of remoteplay: the default and a good network
QosValues == {15, 30}

\* the state right after connectNTR has run the constructor: the socket is
\* connecting and handleData awaits its first read(84)
Init ==
    /\ currentBuffer = <<>>
    /\ byteOffset = 0
    /\ nextPromises = <<[id |-> "loop", length |-> HeaderLen]>>
    /\ disconnected = FALSE
    /\ reads = ("loop" :> NewPromise(HeaderLen, FALSE))
    /\ fedCount = 0
    /\ seqNumber = SeqStart
    /\ canSendHeartbeat = TRUE
    /\ promises = <<>>
    /\ requests = <<>>
    /\ connectedCallback = TRUE
    /\ heartbeatId = "unset"
    /\ sock = [connecting |-> TRUE, ended |-> FALSE, closed |-> FALSE, atEnd |-> {}]
    /\ written = <<>>
    /\ wire = <<>>
    /\ sentFrames = 0
    /\ loop = [pc |-> "header", cmd |-> 0, seq |-> 0, offset |-> 0]
    /\ dispatched = <<>>
    /\ beats = <<>>
    /\ connectNTR = [connected |-> FALSE, state |-> "pending", error |-> ""]
    /\ scan = NoSearch
    /\ call = NoCall

\* the model sends at most MaxPackets packets
CanSend == seqNumber < SeqStart + SeqStep * MaxPackets

\* one sock.write call: `part' tells what the caller wrote (history)
Write(part, bytes) == [part |-> part, bytes |-> bytes]

\* sendPacket that leaves the sequence number as it is
sendPacketAnd_NoIncrement(type, cmd, args, dataLen, more) ==
    /\ written' = Append(written,
                         Write("header", EncodeHeader(seqNumber, type, cmd, args, dataLen)))
                  \o more
    /\ seqNumber' = seqNumber

\* NtrClient.sendPacket(type, cmd, args, dataLen) followed, in the same
\* command, by the sock.write calls `more'
sendPacketAnd(type, cmd, args, dataLen, more) ==
    /\ written' = Append(written,
                         Write("header", EncodeHeader(seqNumber, type, cmd, args, dataLen)))
                  \o more
    /\ seqNumber' = seqNumber + SeqStep

\* NtrClient.sendPacket(type, cmd, args, dataLen)
sendPacket(type, cmd, args, dataLen) == sendPacketAnd(type, cmd, args, dataLen, <<>>)

\* a request registered under the sequence number of its own packet
Request_KeyOfPacket(kind, cmd, args) ==
    /\ CanSend
    /\ sendPacket(0, cmd, args, 0)
    /\ promises' = (seqNumber :> [type |-> kind]) @@ promises
    /\ requests' = (seqNumber :> NewRequest(kind, sentFrames)) @@ requests
    /\ UNCHANGED <<searchVars, callVars, sbVars, canSendHeartbeat, connectedCallback, heartbeatId, sock,
                   wire, sentFrames, loop, dispatched, beats, connectNTR>>

\* a request/response command: the packet is sent and the promise is
\* registered under the sequence number as it stands after the send
Request(kind, cmd, args) ==
    /\ CanSend
    /\ sendPacket(0, cmd, args, 0)
    /\ promises' = (seqNumber' :> [type |-> kind]) @@ promises
    /\ requests' = (seqNumber' :> NewRequest(kind, sentFrames)) @@ requests
    /\ UNCHANGED <<searchVars, callVars, sbVars, canSendHeartbeat, connectedCallback, heartbeatId, sock,
                   wire, sentFrames, loop, dispatched, beats, connectNTR>>

Hello == Request("hello", 3, <<>>)

ListProcesses == Request("processes", 5, <<>>)

ListThreads == \E pid \in Pids : Request("threads", 7, <<pid>>)

GetMemlayout == \E pid \in Pids : Request("memlayout", 8, <<pid>>)

QueryHandle == \E pid \in Pids : Request("handle", 12, <<pid>>)

ReadMemory ==
    \E pid \in Pids, addr \in Addrs, size \in Sizes :
        Request("memory", 9, <<pid, addr, size>>)

FireAndForget_Registers(type, cmd, args, dataLen, more) ==
    /\ CanSend
    /\ sendPacketAnd(type, cmd, args, dataLen, more)
    /\ promises' = (seqNumber' :> [type |-> "hello"]) @@ promises
    /\ UNCHANGED <<searchVars, callVars, sbVars, canSendHeartbeat, requests, connectedCallback,
                   heartbeatId, sock, wire, sentFrames, loop, dispatched, beats, connectNTR>>

\* a command that sends one packet and registers nothing
FireAndForget(type, cmd, args, dataLen, more) ==
    /\ CanSend
    /\ sendPacketAnd(type, cmd, args, dataLen, more)
    /\ UNCHANGED <<searchVars, callVars, sbVars, canSendHeartbeat, promises, requests, connectedCallback,
                   heartbeatId, sock, wire, sentFrames, loop, dispatched, beats, connectNTR>>

NameLen == 200

\* stringToBinaryPadded(str, size) for a str of at most size bytes
stringToBinaryPadded(str, size) ==
    [i \in 1..size |-> IF i <= Len(str) THEN Code(str[i]) ELSE 0]

\* saveFile that writes the header alone
SaveFile_HeaderOnly ==
    \E name \in Names, data \in Bufs :
        FireAndForget(1, 1, <<>>, NameLen + Len(data), <<>>)

SaveFile ==
    \E name \in Names, data \in Bufs :
        FireAndForget(1, 1, <<>>, NameLen + Len(data),
                      <<Write("name", stringToBinaryPadded(name, NameLen)),
                        Write("data", data)>>)

Reload == FireAndForget(0, 4, <<>>, 0, <<>>)

WriteMemory ==
    \E addr \in Addrs, pid \in Pids, buf \in Bufs :
        FireAndForget(1, 10, <<pid, addr, Len(buf)>>, Len(buf), <<Write("data", buf)>>)

\* addBreakpoint(addr, type) sends nothing for a type other than 'always'
\* and 'once'
AddBreakpoint ==
    \E addr \in Addrs, type \in BreakpointTypes :
        CASE type = "always" -> FireAndForget(0, 11, <<1, addr, 1>>, 0, <<>>)
          [] type = "once"   -> FireAndForget(0, 11, <<2, addr, 1>>, 0, <<>>)
          [] OTHER           -> UNCHANGED vars

DisableBreakpoint == \E id \in BreakpointIds : FireAndForget(0, 11, <<id, 0, 3>>, 0, <<>>)

EnableBreakpoint == \E id \in BreakpointIds : FireAndForget(0, 11, <<id, 0, 2>>, 0, <<>>)

Resume == FireAndForget(0, 11, <<0, 0, 4>>, 0, <<>>)

AttachToProcess ==
    \E pid \in Pids, patchAddr \in {0} : FireAndForget(0, 6, <<pid, patchAddr>>, 0, <<>>)

\* a | b on non-negative numbers
RECURSIVE BitOr(_, _)
BitOr(a, b) ==
    IF a = 0 THEN b
    ELSE IF b = 0 THEN a
    ELSE (IF a % 2 = 1 \/ b % 2 = 1 THEN 1 ELSE 0) + 2 * BitOr(a \div 2, b \div 2)

\* remoteplay(priorityMode, priorityFactor, quality, qosValue): the value
\* computed from qosValue is not among the arguments sent
\* const num = (qosValue * 1024 * 1024 / 8)
num(qosValue) == (qosValue * 1024 * 1024) \div 8

\* remoteplay(priorityMode, priorityFactor, quality, qosValue): num is
\* computed from qosValue and not used
Remoteplay ==
    \E p \in Priorities, quality \in {90}, qosValue \in QosValues :
        FireAndForget(0, 901, <<BitOr(p[1] * 256, p[2]), quality>>, 0, <<>>)

\* heartbeat() that leaves the flag as it is
heartbeat_FlagKept ==
    IF canSendHeartbeat
    THEN /\ canSendHeartbeat' = canSendHeartbeat
         /\ sendPacket(0, 0, <<>>, 0)
         /\ beats' = Append(beats, "sent")
    ELSE /\ beats' = Append(beats, "skipped")
         /\ UNCHANGED <<canSendHeartbeat, seqNumber, written>>

\* NtrClient.heartbeat(): a packet is sent only when the flag is set, and
\* the flag is cleared
heartbeat ==
    IF canSendHeartbeat
    THEN /\ canSendHeartbeat' = FALSE
         /\ sendPacket(0, 0, <<>>, 0)
         /\ beats' = Append(beats, "sent")
    ELSE /\ beats' = Append(beats, "skipped")
         /\ UNCHANGED <<canSendHeartbeat, seqNumber, written>>

\* a tick of the interval timer started in the connect callback
Heartbeat ==
    /\ heartbeatId = "running"
    /\ Len(beats) < MaxTicks
    /\ canSendHeartbeat => CanSend
    /\ heartbeat
    /\ UNCHANGED <<searchVars, callVars, sbVars, promises, requests, connectedCallback, heartbeatId, sock,
                   wire, sentFrames, loop, dispatched, connectNTR>>

\* clearInterval(this.heartbeatId)
clearInterval(id) == IF id = "running" THEN "cleared" ELSE id

\* NtrClient.disconnect(): the timer is cleared and the socket is ended
disconnect ==
    /\ heartbeatId' = clearInterval(heartbeatId)
    /\ sock' = [sock EXCEPT !.ended = TRUE]

\* the caller calls disconnect()
Disconnect ==
    /\ disconnect
    /\ UNCHANGED <<searchVars, callVars, sbVars, seqNumber, canSendHeartbeat, promises, requests,
                   connectedCallback, written, wire, sentFrames, loop, dispatched, beats,
                   connectNTR>>

\* the caller calls disconnect() for the first time; the requests pending
\* at that moment are noted in sock.atEnd
DisconnectNoted ==
    /\ ~sock.ended
    /\ heartbeatId' = clearInterval(heartbeatId)
    /\ sock' = [sock EXCEPT
                   !.ended = TRUE,
                   !.atEnd = {k \in DOMAIN requests : requests[k].state = "pending"}]
    /\ UNCHANGED <<searchVars, callVars, sbVars, seqNumber, canSendHeartbeat, promises, requests,
                   connectedCallback, written, wire, sentFrames, loop, dispatched, beats,
                   connectNTR>>

\* the socket's connect callback: the heartbeat timer is started
TcpConnect ==
    /\ sock.connecting /\ ~sock.closed
    /\ sock' = [sock EXCEPT !.connecting = FALSE]
    /\ heartbeatId' = "running"
    /\ UNCHANGED <<searchVars, callVars, sbVars, seqNumber, canSendHeartbeat, promises, requests,
                   connectedCallback, written, wire, sentFrames, loop, dispatched, beats,
                   connectNTR>>

\* the close event without connectNTR's disconnectedCallback
SocketClose_NoReject ==
    /\ ~sock.closed
    /\ sock' = [sock EXCEPT !.closed = TRUE, !.connecting = FALSE]
    /\ connectNTR' = connectNTR
    /\ disconnected' = TRUE
    /\ reads' = onDisconnectPromises(reads, nextPromises)
    /\ nextPromises' = <<>>
    /\ UNCHANGED <<searchVars, callVars, currentBuffer, byteOffset, fedCount, seqNumber, canSendHeartbeat, promises,
                   requests, connectedCallback, heartbeatId, written, wire,
                   sentFrames, loop, dispatched, beats>>

\* the socket's close event: disconnectedCallback (connectNTR's), then
\* SocketBase.onDisconnect
SocketClose ==
    /\ ~sock.closed
    /\ sock' = [sock EXCEPT !.closed = TRUE, !.connecting = FALSE]
    /\ connectNTR' =
         IF ~connectNTR.connected /\ connectNTR.state = "pending"
         THEN [connectNTR EXCEPT !.state = "rejected",
                                 !.error = "Connection could not be established."]
         ELSE connectNTR
    /\ disconnected' = TRUE
    /\ reads' = onDisconnectPromises(reads, nextPromises)
    /\ nextPromises' = <<>>
    /\ UNCHANGED <<searchVars, callVars, currentBuffer, byteOffset, fedCount, seqNumber, canSendHeartbeat, promises,
                   requests, connectedCallback, heartbeatId, written, wire,
                   sentFrames, loop, dispatched, beats>>

\* a frame as the device puts it on the wire
DeviceFrame(magic, seq, cmd, payload) ==
    LE32(magic) \o LE32(seq) \o LE32(0) \o LE32(cmd) \o ArgBytes(<<>>, 1)
        \o LE32(Len(payload)) \o payload

\* the sequence numbers the device refers to: those of the packets sent so
\* far and the one after them
FrameSeqs == {SeqStart + SeqStep * k : k \in 0..((seqNumber - SeqStart) \div SeqStep)}

\* text payloads: none, the reply to hello, the tail of a memory read, and a
\* payload without a non-empty line
TextPayloads == {<<>>, Bytes(T_hello), Bytes(T_finished), Bytes(<<"\n">>)}

DataPayloads == {<<1, 0, 0, 0>>}

\* the frames the device may send: text replies (cmd 0), memory payloads
\* (cmd 9), a frame of another command, and a frame with a wrong magic
DeviceFrames ==
    {DeviceFrame(Magic, s, 0, p) : s \in FrameSeqs, p \in TextPayloads}
    \cup {DeviceFrame(Magic, s, 9, p) : s \in FrameSeqs, p \in DataPayloads}
    \cup {DeviceFrame(Magic, s, 5, <<>>) : s \in FrameSeqs}
    \cup {DeviceFrame(0, SeqStart, 0, <<>>)}

\* what the device may send next: nothing, or one more frame
MoreBytes == {<<>>} \cup (IF sentFrames < MaxFrames THEN DeviceFrames ELSE {})

\* the sizes of the chunk the socket may deliver of the bytes w in flight:
\* all of them, or the length of a header
ChunkSizes(w) == {Len(w)} \cup {k \in {HeaderLen} : k < Len(w)}

\* the socket's data event, the device having sent the bytes f more:
\* SocketBase.receiveData(chunk).  The device's sending and the socket's
\* delivery are one step (bytes in flight are seen by nobody): `wire' holds
\* what is left of the bytes sent so far.
Receive(f) ==
    \E k \in ChunkSizes(wire \o f) :
        /\ ~sock.connecting /\ ~sock.closed
        /\ k > 0
        /\ LET r == receiveData(currentBuffer, nextPromises, SubSeq(wire \o f, 1, k))
           IN  /\ currentBuffer' = r.buffer
               /\ byteOffset' = subarrayOffset(0, Len(currentBuffer) + k - Len(r.buffer))
               /\ nextPromises' = r.queue
               /\ reads' = AfterResolutions(reads, r.done)
        /\ wire' = SubSeq(wire \o f, k + 1, Len(wire \o f))
        /\ sentFrames' = sentFrames + (IF f = <<>> THEN 0 ELSE 1)
        /\ UNCHANGED <<searchVars, callVars, disconnected, fedCount, seqNumber, canSendHeartbeat, promises,
                       requests, connectedCallback, heartbeatId, sock, written,
                       loop, dispatched, beats, connectNTR>>

\* the socket's data event, the device sending what it may
SocketData ==
    /\ ~sock.closed
    /\ \E f \in MoreBytes : Receive(f)

\* the byteOffset of the array that read(n) will resolve with: that of
\* currentBuffer when the bytes are there, and 0 when the promise is queued
\* (receiveData resolves the first promise of the queue with the head of a
\* new buffer)
ResultOffset(n) ==
    IF read(currentBuffer, nextPromises, disconnected, n).promise.state = "resolved"
    THEN byteOffset
    ELSE 0

\* a read that leaves the bytes it returns in the buffer
AwaitRead_KeepBuffer(n) ==
    LET r == read(currentBuffer, nextPromises, disconnected, n)
    IN  /\ reads' = ("loop" :> r.promise)
        /\ currentBuffer' = currentBuffer
        /\ byteOffset' = byteOffset
        /\ nextPromises' = IF r.queued
                           THEN Append(nextPromises, [id |-> "loop", length |-> n])
                           ELSE nextPromises

\* handleData calls this.sock.read(n) and awaits the promise
AwaitRead(n) ==
    LET r == read(currentBuffer, nextPromises, disconnected, n)
    IN  /\ reads' = ("loop" :> r.promise)
        /\ currentBuffer' = r.buffer
        /\ byteOffset' = subarrayOffset(byteOffset, Len(currentBuffer) - Len(r.buffer))
        /\ nextPromises' = IF r.queued
                           THEN Append(nextPromises, [id |-> "loop", length |-> n])
                           ELSE nextPromises

\* the catch clause of handleData: this.disconnect(); the loop ends
CatchDisconnect ==
    /\ disconnect
    /\ loop' = [loop EXCEPT !.pc = "stopped", !.offset = 0]
    /\ UNCHANGED <<sbVars, connectedCallback, connectNTR>>

\* handleData from handlePacket(cmd, seq, data) to the await of the next
\* header: the frame is dispatched, connectedCallback is called once, and
\* handleData is called again
DispatchFrame(cmd, seq, data) ==
    \E r \in {handlePacket(promises, requests, canSendHeartbeat, cmd, seq, data,
                           Len(dispatched) + 1)} :
        /\ dispatched' = Append(dispatched, [cmd |-> cmd, seq |-> seq, data |-> data])
        /\ beats' = IF cmd = 0 THEN <<>> ELSE beats
        /\ canSendHeartbeat' = r.canSendHeartbeat
        /\ promises' = r.promises
        /\ requests' = r.requests
        /\ IF r.threw
           THEN CatchDisconnect
           ELSE /\ connectedCallback' = FALSE
                /\ connectNTR' =
                     IF connectedCallback
                     THEN [connectNTR EXCEPT
                             !.connected = TRUE,
                             !.state = IF @ = "pending" THEN "resolved" ELSE @]
                     ELSE connectNTR
                /\ AwaitRead(HeaderLen)
                /\ loop' = [pc |-> "header", cmd |-> 0, seq |-> 0,
                            offset |-> ResultOffset(HeaderLen)]
                /\ UNCHANGED <<disconnected, fedCount, heartbeatId, sock>>

\* the continuation of handleData once the promise it awaits has settled
HandleData ==
    /\ loop.pc # "stopped"
    /\ reads["loop"].state # "pending"
    /\ UNCHANGED <<seqNumber, written, wire, sentFrames, searchVars, callVars>>
    /\ IF \/ reads["loop"].state = "rejected"
          \/ loop.pc = "header" /\ ~ArgsViewOk(loop.offset)
       THEN /\ CatchDisconnect
            /\ UNCHANGED <<canSendHeartbeat, promises, requests, dispatched, beats>>
       ELSE IF loop.pc = "header"
       THEN LET h == DecodeHeader(reads["loop"].data)
            IN  IF h.magic # Magic
                THEN /\ loop' = [loop EXCEPT !.pc = "stopped", !.offset = 0]
                     /\ UNCHANGED <<sbVars, canSendHeartbeat, promises, requests,
                                    connectedCallback, heartbeatId, sock, dispatched, beats,
                                    connectNTR>>
                ELSE IF h.dataLen # 0
                THEN /\ AwaitRead(h.dataLen)
                     /\ loop' = [pc |-> "payload", cmd |-> h.cmd, seq |-> h.seq,
                                 offset |-> 0]
                     /\ UNCHANGED <<disconnected, fedCount, canSendHeartbeat, promises,
                                    requests, connectedCallback, heartbeatId, sock,
                                    dispatched, beats, connectNTR>>
                ELSE DispatchFrame(h.cmd, h.seq, <<>>)
       ELSE DispatchFrame(loop.cmd, loop.seq, reads["loop"].data)

\* the client in dialogue with the device
Next ==
    \/ Hello
    \/ ListProcesses
    \/ ReadMemory
    \/ Heartbeat
    \/ Disconnect
    \/ TcpConnect
    \/ SocketClose
    \/ SocketData
    \/ HandleData

Spec == Init /\ [][Next]_vars

\* the client in dialogue with the device, without the timer, with the
\* requests pending at the caller's disconnect() noted
NextEnd ==
    \/ Hello
    \/ ListProcesses
    \/ ReadMemory
    \/ DisconnectNoted
    \/ TcpConnect
    \/ SocketClose
    \/ SocketData
    \/ HandleData

SpecEnd == Init /\ [][NextEnd]_vars

\* the client's commands alone, the device staying silent
NextSend ==
    \/ Hello
    \/ ListProcesses
    \/ ListThreads
    \/ GetMemlayout
    \/ QueryHandle
    \/ ReadMemory
    \/ SaveFile
    \/ Reload
    \/ WriteMemory
    \/ AddBreakpoint
    \/ DisableBreakpoint
    \/ EnableBreakpoint
    \/ Resume
    \/ AttachToProcess
    \/ Remoteplay
    \/ Heartbeat
    \/ Disconnect
    \/ TcpConnect
    \/ SocketClose

SpecSend == Init /\ [][NextSend]_vars

\* the commands that write a payload after the header, next to the timer
\* and the device
NextWrite ==
    \/ SaveFile
    \/ WriteMemory
    \/ Heartbeat
    \/ Disconnect
    \/ TcpConnect
    \/ SocketClose
    \/ SocketData
    \/ HandleData

SpecWrite == Init /\ [][NextWrite]_vars

\* the payloads of the device's answer to a heartbeat: none, and a text
AnswerPayloads == {<<>>, Bytes(T_hello)}

\* the device answers the packets in the order they were written, each with
\* a cmd-0 frame of the packet's sequence number; the answer may come behind
\* a header that is not a frame's (wrong magic)
Answer ==
    /\ sentFrames < Len(written)
    /\ \E noise \in {<<>>, DeviceFrame(0, SeqStart, 0, <<>>)}, p \in AnswerPayloads :
          Receive(noise \o DeviceFrame(Magic, DecodeHeader(written[sentFrames + 1].bytes).seq,
                                       0, p))

\* the socket delivers bytes the device has sent
Deliver ==
    /\ wire # <<>>
    /\ Receive(<<>>)

\* the timer, a caller and the device on a connection that stays open: no
\* disconnect, no close
NextLive ==
    \/ TcpConnect
    \/ Hello
    \/ Heartbeat
    \/ Answer
    \/ Deliver
    \/ HandleData

\* the connection is made, the timer ticks while it runs, the device answers
\* every heartbeat, the socket delivers what was sent, and the continuation
\* of handleData runs once its promise has settled
SpecLive ==
    /\ Init
    /\ [][NextLive]_vars
    /\ WF_vars(TcpConnect)
    /\ WF_vars(Heartbeat)
    /\ WF_vars(Answer)
    /\ WF_vars(Deliver)
    /\ WF_vars(HandleData)

-----------------------------------------------------------------------------
(* SpecSearch: one call of search.  The client is seen through the        *)
(* promises of readMemory and getMemlayout, which the device settles: a    *)
(* read resolves with a buffer of any length or is rejected.               *)

\* the words a buffer is made of, and the bytes that may follow them
Words == {<<1, 0, 0, 0>>, <<2, 0, 0, 0>>, <<1, 1, 0, 0>>}

Tails == {<<>>, <<1, 0>>}

RECURSIVE WordSeqs(_)
WordSeqs(n) ==
    IF n = 0 THEN {<<>>}
    ELSE WordSeqs(n - 1) \cup {b \o w : b \in WordSeqs(n - 1), w \in Words}

\* the buffers a read may resolve with
Buffers == {b \o t : b \in WordSeqs(MaxWords), t \in Tails}

\* how a promise of the client settles
Outcomes(values) ==
    {[ok |-> TRUE, value |-> v] : v \in values} \cup {[ok |-> FALSE, value |-> <<>>]}

Targets == {1, 2}

Addresses == {16, 64}

RECURSIVE SeqsUpTo(_, _)
SeqsUpTo(S, n) ==
    IF n = 0 THEN {<<>>}
    ELSE SeqsUpTo(S, n - 1) \cup {Append(q, x) : q \in SeqsUpTo(S, n - 1), x \in S}

Regions == {[start |-> a, end |-> a + 8, size |-> 8] : a \in Addresses}

\* readMemory is called for this read and for the same read once more
AskRead_Twice(sc, pc, k, addr, size) ==
    [sc EXCEPT !.pc = pc, !.k = k,
               !.asked = @ \o <<[addr |-> addr, size |-> size],
                                [addr |-> addr, size |-> size]>>]

\* client.readMemory(addr, size, pid) is called and awaited
AskRead(sc, pc, k, addr, size) ==
    [sc EXCEPT !.pc = pc, !.k = k,
               !.asked = Append(@, [addr |-> addr, size |-> size])]

\* the list collected so far is returned in spite of the error e
Fail_ReturnsPartial(sc, e) == [sc EXCEPT !.pc = "returned", !.error = e]

\* the promise of search is rejected with e
Fail(sc, e) == [sc EXCEPT !.pc = "failed", !.error = e]

\* return res
Return(sc) == [sc EXCEPT !.pc = "returned"]

\* search(client, pid, value, locations) up to its first await
Search ==
    /\ scan.pc = "idle"
    /\ \E value \in Targets, given \in BOOLEAN, locations \in SeqsUpTo(Addresses, MaxLocations) :
          /\ ~given => locations = <<>>
          /\ LET sc == [scan EXCEPT !.value = value, !.given = given,
                                    !.locations = locations]
             IN  scan' = IF ~given THEN [sc EXCEPT !.pc = "memlayout"]
                         ELSE IF locations = <<>> THEN Return(sc)
                         ELSE AskRead(sc, "location", 1, locations[1], 4)
    /\ UNCHANGED <<sbVars, clientVars, callVars>>

\* the read of a location settles: the body of the first loop, and the
\* next read or the return
ReadLocation ==
    /\ scan.pc = "location"
    /\ \E o \in Outcomes(Buffers) :
          LET sc  == [scan EXCEPT !.got = Append(@, o)]
              loc == scan.locations[scan.k]
          IN  scan' =
                IF ~o.ok THEN Fail(sc, "rejected")
                ELSE IF ~InView(o.value, 0) THEN Fail(sc, "RangeError")
                ELSE LET sr == [sc EXCEPT !.res = pushIfEqual(@, o.value, 0, scan.value, loc)]
                     IN  IF scan.k < Len(scan.locations)
                         THEN AskRead(sr, "location", scan.k + 1,
                                      scan.locations[scan.k + 1], 4)
                         ELSE Return(sr)
    /\ UNCHANGED <<sbVars, clientVars, callVars>>

\* the read of region k is asked for, or the result is returned
NextRegion(sc, k) ==
    IF k <= Len(sc.memorymap)
    THEN AskRead(sc, "region", k, sc.memorymap[k].start, sc.memorymap[k].size)
    ELSE Return(sc)

\* getMemlayout settles: the memory map is kept and the first region read
Memlayout ==
    /\ scan.pc = "memlayout"
    /\ \E o \in Outcomes(SeqsUpTo(Regions, MaxRegions)) :
          scan' = IF ~o.ok THEN Fail([scan EXCEPT !.layout = "rejected"], "rejected")
                  ELSE NextRegion([scan EXCEPT !.memorymap = o.value,
                                               !.layout = "resolved"], 1)
    /\ UNCHANGED <<sbVars, clientVars, callVars>>

\* the read of a region settles: the buffer is scanned, and the next
\* region is read or the result returned
ReadRegion ==
    /\ scan.pc = "region"
    /\ \E o \in Outcomes(Buffers) :
          LET sc == [scan EXCEPT !.got = Append(@, o)]
          IN  scan' =
                IF ~o.ok THEN Fail(sc, "rejected")
                ELSE LET r == scanRegion(o.value, scan.memorymap[scan.k].start,
                                         scan.value, 0, scan.res)
                     IN  IF r.threw THEN Fail(sc, "RangeError")
                         ELSE NextRegion([sc EXCEPT !.res = r.res], scan.k + 1)
    /\ UNCHANGED <<sbVars, clientVars, callVars>>

NextSearch == Search \/ ReadLocation \/ Memlayout \/ ReadRegion

SpecSearch == InitR /\ [][NextSearch]_vars

-----------------------------------------------------------------------------
(* SpecParse: one text reply of the device handed to the parser of its     *)
(* kind, as handlePacket does it: the payload bytes are decoded, split     *)
(* into lines and dispatched.  A reply is built from lines of known        *)
(* meaning: `valid' tells whether it follows the grammar of its kind and   *)
(* `expected' what it stands for.                                          *)

Zeros(n) == [i \in 1..n |-> "0"]

\* the hex words of 8 and of 16 digits that end in digit d
H8(d) == Zeros(7) \o <<d>>

H16(d) == Zeros(15) \o <<d>>

\* a part of a reply: its lines, whether they follow the grammar, and the
\* value they stand for
Part(lines, ok, value) == [lines |-> lines, ok |-> ok, value |-> value]

Absent == Part(<<>>, FALSE, <<>>)

Nothing == Part(<<>>, TRUE, <<>>)

Literal(text) == Part(<<text>>, TRUE, <<>>)

\* the lines of a sequence of parts
RECURSIVE Flat(_)
Flat(parts) == IF parts = <<>> THEN <<>> ELSE parts[1].lines \o Flat(Tail(parts))

Values(parts) == [i \in 1..Len(parts) |-> parts[i].value]

AllOk(parts) == \A i \in 1..Len(parts) : parts[i].ok

\* the text of the lines, each line but the last followed by a line feed
RECURSIVE JoinLines(_)
JoinLines(ls) ==
    IF ls = <<>> THEN <<>>
    ELSE IF Len(ls) = 1 THEN ls[1]
    ELSE ls[1] \o <<"\n">> \o JoinLines(Tail(ls))

\* the payload the device sends for the lines, with a final line feed or not
Payload(lines, feed) ==
    Bytes(JoinLines(lines) \o (IF feed THEN <<"\n">> ELSE <<>>))

ProcessLine(pid, name, tid, kpobj) ==
    T_pid0x \o pid \o T_pname \o name \o T_ctid \o tid \o T_kpobj \o kpobj

\* process lines: two that follow the grammar, and an upper-case pid, a name
\* with a comma and a tid of 8 digits
ProcessParts ==
    {Part(<<ProcessLine(H8("1"), <<" ", "t", "e", "s", "t">>, H16("1"), H8("1"))>>, TRUE,
          [pid |-> 1, name |-> <<"t", "e", "s", "t">>, tid |-> 1, kpobj |-> 1]),
     Part(<<ProcessLine(H8("a"), <<" ", " ", "a", " ", "b">>, H16("2"), H8("f"))>>, TRUE,
          [pid |-> 10, name |-> <<"a", " ", "b">>, tid |-> 2, kpobj |-> 15]),
     Part(<<ProcessLine(H8("A"), <<" ", "t">>, H16("1"), H8("1"))>>, FALSE, <<>>),
     Part(<<ProcessLine(H8("1"), <<" ", "a", ",", "b">>, H16("1"), H8("1"))>>, FALSE, <<>>),
     Part(<<ProcessLine(H8("1"), <<" ", "t">>, H8("1"), H8("1"))>>, FALSE, <<>>)}

RegionLine(start, end, size) == start \o T_dash \o end \o T_size \o size

\* region lines: two that follow the grammar, one without the space before
\* the comma
RegionParts ==
    {Part(<<RegionLine(H8("1"), H8("9"), H8("8"))>>, TRUE,
          [start |-> 1, end |-> 9, size |-> 8]),
     Part(<<RegionLine(H8("a"), H8("c"), H8("2"))>>, TRUE,
          [start |-> 10, end |-> 12, size |-> 2]),
     Part(<<H8("1") \o T_dash \o H8("9") \o <<",">> \o H8("8")>>, FALSE, <<>>)}

\* handle lines
HandleParts ==
    {Part(<<T_h \o H8("1") \o T_p \o H8("2")>>, TRUE, [h |-> 1, p |-> 2]),
     Part(<<T_h \o H8("3") \o T_p \o H8("4")>>, TRUE, [h |-> 3, p |-> 4]),
     Part(<<T_h \o H8("1")>>, FALSE, <<>>)}

\* a register line of n words 00000001
RECURSIVE RegisterLine(_)
RegisterLine(n) ==
    IF n = 1 THEN H8("1") ELSE RegisterLine(n - 1) \o <<" ">> \o H8("1")

TidLine == T_tid0x \o H8("1")

PcLrLine == T_pc \o H8("2") \o T_lr \o H8("3")

\* the register dump of RegisterLine(32)
Ones == [j \in 1..(4 * RegisterWords) |-> IF j % 4 = 1 THEN 1 ELSE 0]

\* thread runs: one that follows the grammar, and a tid of one digit, a
\* line without lr, register lines of 31 and of 33 words, a run of 2 lines
ThreadParts ==
    {Part(<<TidLine, PcLrLine, RegisterLine(RegisterWords)>>, TRUE,
          [tid |-> 1, pc |-> 2, lr |-> 3, data |-> Ones]),
     Part(<<T_tid0x \o <<"1">>, PcLrLine, RegisterLine(RegisterWords)>>, FALSE, <<>>),
     Part(<<TidLine, T_pc \o H8("2"), RegisterLine(RegisterWords)>>, FALSE, <<>>),
     Part(<<TidLine, PcLrLine, RegisterLine(RegisterWords - 1)>>, FALSE, <<>>),
     Part(<<TidLine, PcLrLine, RegisterLine(RegisterWords + 1)>>, FALSE, <<>>),
     Part(<<TidLine, PcLrLine>>, FALSE, <<>>)}

\* a line of 8 hex digits
WordParts == {Part(<<H8("4")>>, TRUE, 4), Part(<<H8("c")>>, TRUE, 12)}

\* a line of no grammar
Garbage == Part(<<<<"x">>>>, FALSE, <<>>)

\* a reply made of a head, a list of parts and a tail
ListReply(head, parts, tail) ==
    [lines    |-> head.lines \o Flat(parts) \o tail.lines,
     valid    |-> head.ok /\ AllOk(parts) /\ tail.ok,
     expected |-> Values(parts)]

ProcessReplies ==
    {ListReply(Nothing, ps, t) :
        ps \in SeqsUpTo(ProcessParts, MaxParts),
        t \in {Literal(T_endOfProcessList), Absent}}

MemlayoutReplies ==
    {ListReply(h, ps, t) :
        h \in {Literal(T_validMemregions), Absent},
        ps \in SeqsUpTo(RegionParts, MaxParts),
        t \in {Literal(T_endOfMemlayout), Absent}}

HandleReplies ==
    {ListReply(Nothing, ps, t) :
        ps \in SeqsUpTo(HandleParts, MaxParts),
        t \in {Literal(T_done), Absent}}

\* a thread list: runs, 'recommend pc:', words, 'recommend lr:', words, end
ThreadReply(runs, pc, pcs, lr, lrs, end) ==
    [lines    |-> Flat(runs) \o pc.lines \o Flat(pcs) \o lr.lines \o Flat(lrs)
                    \o end.lines,
     valid    |-> AllOk(runs) /\ pc.ok /\ lr.ok /\ end.ok,
     expected |-> [threads       |-> Values(runs),
                   recommendedPc |-> Values(pcs),
                   recommendedLr |-> Values(lrs)]]

ThreadReplies ==
    {ThreadReply(runs, pc, pcs, lr, lrs, end) :
        runs \in SeqsUpTo(ThreadParts, MaxRuns),
        pc \in {Literal(T_recommendPc), Absent},
        pcs \in SeqsUpTo(WordParts, MaxWordLines),
        lr \in {Literal(T_recommendLr), Absent},
        lrs \in SeqsUpTo(WordParts, MaxWordLines),
        end \in {Nothing, Garbage}}

\* a reply that is to be the one line `text'
OneLineReply(lines, text) ==
    [lines |-> lines, valid |-> lines = <<text>>, expected |-> <<>>]

HelloReplies ==
    {OneLineReply(ls, T_hello) : ls \in SeqsUpTo({T_hello, T_finished, <<"x">>}, MaxParts)}

MemoryReplies ==
    {OneLineReply(ls, T_finished) :
        ls \in SeqsUpTo({T_hello, T_finished, <<"x">>}, MaxParts)}

\* case 0 of handlePacket for an entry of kind `type': the payload is
\* decoded, split into lines and handed to the parser
ParseReply(type, r, feed) ==
    /\ call' = [fn       |-> type,
                input    |-> Payload(r.lines, feed),
                valid    |-> r.valid,
                expected |-> r.expected,
                out      |-> dispatchText(type, linesOf(Payload(r.lines, feed)))]
    /\ UNCHANGED <<sbVars, clientVars, searchVars>>

ReplyProcesses ==
    /\ call = NoCall
    /\ \E r \in ProcessReplies, feed \in BOOLEAN : ParseReply("processes", r, feed)

ReplyThreads ==
    /\ call = NoCall
    /\ \E r \in ThreadReplies, feed \in BOOLEAN : ParseReply("threads", r, feed)

ReplyMemlayout ==
    /\ call = NoCall
    /\ \E r \in MemlayoutReplies, feed \in BOOLEAN : ParseReply("memlayout", r, feed)

ReplyHandles ==
    /\ call = NoCall
    /\ \E r \in HandleReplies, feed \in BOOLEAN : ParseReply("handle", r, feed)

ReplyHello ==
    /\ call = NoCall
    /\ \E r \in HelloReplies, feed \in BOOLEAN : ParseReply("hello", r, feed)

ReplyMemory ==
    /\ call = NoCall
    /\ \E r \in MemoryReplies, feed \in BOOLEAN : ParseReply("memory", r, feed)

NextParse ==
    \/ ReplyProcesses
    \/ ReplyThreads
    \/ ReplyMemlayout
    \/ ReplyHandles
    \/ ReplyHello
    \/ ReplyMemory

SpecParse == InitR /\ [][NextParse]_vars

-----------------------------------------------------------------------------
(* SpecCodec: a header written by sendPacket is handed to the decoder of   *)
(* handleData, as a view that starts at some offset of its ArrayBuffer     *)
(* (the array sock.read(84) resolves with is a subarray of the buffer of   *)
(* the reassembler), on a host of either byte order.                       *)

\* element i of a Uint32Array over the bytes of buf from `offset': the word
\* in the byte order of the host
hostUint32(buf, offset, host) ==
    IF host = "little" THEN getUint32(buf, offset)
    ELSE 16777216 * buf[offset + 1] + 65536 * buf[offset + 2] + 256 * buf[offset + 3]
            + buf[offset + 4]

\* handleData from the resolution of read(84) to the test of the magic:
\* the fields of the header cmdBuf, a view at byteOffset `at'
decodeHeader(cmdBuf, at, host) ==
    IF ~ArgsViewOk(at) THEN [DoThrow EXCEPT !.error = "RangeError"]
    ELSE DoResolve([DecodeHeader(cmdBuf) EXCEPT
                       !.args = [i \in 1..MaxArgs |->
                                    hostUint32(cmdBuf, 16 + WordLen * (i - 1), host)]])

\* the argument lists given to sendPacket: 7, 8, ... of every length
ArgLists == {[i \in 1..n |-> i + 6] : n \in 0..MaxGiven}

\* the fields a header is to decode to
HeaderOf(seq, type, cmd, args, dataLen) ==
    [magic   |-> Magic,
     seq     |-> seq,
     type    |-> type,
     cmd     |-> cmd,
     args    |-> [i \in 1..MaxArgs |-> IF i <= Len(args) THEN args[i] ELSE 0],
     dataLen |-> dataLen]

\* sendPacket(type, cmd, args, dataLen) of a client whose seqNumber is seq,
\* and the decoding of the 84 bytes it writes
RoundTrip ==
    /\ call = NoCall
    /\ \E seq \in {SeqStart, 5 * SeqStep}, type \in {0, 1}, cmd \in {8}, args \in ArgLists,
          dataLen \in {0, 5}, at \in 0..(WordLen - 1), host \in {"little", "big"} :
            call' = [fn       |-> "decodeHeader",
                     input    |-> [bytes |-> EncodeHeader(seq, type, cmd, args, dataLen),
                                   given |-> Len(args), at |-> at, host |-> host],
                     valid    |-> TRUE,
                     expected |-> HeaderOf(seq, type, cmd, args, dataLen),
                     out      |-> decodeHeader(EncodeHeader(seq, type, cmd, args, dataLen),
                                               at, host)]
    /\ UNCHANGED <<sbVars, clientVars, searchVars>>

NextCodec == RoundTrip

SpecCodec == InitR /\ [][NextCodec]_vars

-----------------------------------------------------------------------------
(* Properties of the Byte Reassembler, under SpecR *)

Pending(id) == reads[id].state = "pending"

Settled(id) == reads[id].state # "pending"

\* the number of bytes delivered to the resolved reads issued before `id'
RECURSIVE DeliveredBefore(_)
DeliveredBefore(id) ==
    IF id <= 1 THEN 0
    ELSE DeliveredBefore(id - 1)
         + (IF reads[id - 1].state = "resolved" THEN Len(reads[id - 1].data) ELSE 0)

\* C8: every read(n) that resolves receives exactly n bytes, the next n bytes
\* of the concatenated input after those delivered to earlier reads, and it
\* resolves only once all of these bytes have been fed.
C8_ReadGetsItsBytes ==
    \A id \in DOMAIN reads :
        reads[id].state = "resolved" =>
            /\ Len(reads[id].data) = reads[id].length
            /\ reads[id].data =
                   [i \in 1..reads[id].length |-> DeliveredBefore(id) + i]
            /\ DeliveredBefore(id) + reads[id].length <= fedCount

\* C9: reads are resolved strictly in issue order: no read is resolved while
\* an earlier-issued read is still pending.
C9_ResolvedInIssueOrder ==
    \A i, j \in DOMAIN reads :
        (i < j /\ reads[j].state = "resolved") => ~Pending(i)

\* C9 witness: a later read stays pending behind an earlier pending one
\* although its byte count is already buffered.
C9_Witness ==
    \E i, j \in DOMAIN reads :
        /\ i < j /\ Pending(i) /\ Pending(j)
        /\ reads[j].length > 0
        /\ reads[j].length <= Len(currentBuffer)

C10_NoPendingAfterDisconnect ==
    /\ disconnected =>
          /\ nextPromises = <<>>
          /\ \A id \in DOMAIN reads : ~Pending(id)
    /\ \A id \in DOMAIN reads :
          /\ reads[id].state = "rejected" => reads[id].error = ConnectionClosed
          /\ (reads[id].late /\ reads[id].state = "resolved")
                => Len(reads[id].data) = reads[id].length

C10_DisconnectRejects ==
    (~disconnected /\ disconnected') =>
        \A id \in DOMAIN reads :
            Pending(id) => /\ reads'[id].state = "rejected"
                           /\ reads'[id].error = ConnectionClosed

C10_LateReadRejected ==
    disconnected =>
        \A id \in DOMAIN reads' \ DOMAIN reads :
            reads'[id].length > Len(currentBuffer) => reads'[id].state = "rejected"

\* C10: on disconnection every outstanding read is rejected with the
\* connection-closed error, from then on no read is pending, and a read issued
\* after disconnection that the buffer cannot serve is rejected at once.
C10_DisconnectFailsReads ==
    /\ []C10_NoPendingAfterDisconnect
    /\ [][C10_DisconnectRejects /\ C10_LateReadRejected]_vars

\* C10 witness: a read that was outstanding at disconnection and a read issued
\* after it have both been rejected.
C10_Witness ==
    /\ disconnected
    /\ \E i, j \in DOMAIN reads :
          /\ ~reads[i].late /\ reads[i].state = "rejected"
          /\ reads[j].late /\ reads[j].state = "rejected"
          /\ reads[j].length > Len(currentBuffer)

\* C11: after disconnection a receiveData call is not accepted: it leaves the
\* buffered bytes unchanged and resolves no read.
C11_NoFeedAfterDisconnect ==
    [][(disconnected /\ fedCount' # fedCount)
          => /\ currentBuffer' = currentBuffer
             /\ reads' = reads]_vars

-----------------------------------------------------------------------------
(* Properties of the packets sent, under SpecSend *)

\* the packets sent so far: the headers among the socket writes
Packets == SelectSeq(written, LAMBDA w : w.part = "header")

\* the header fields of the k-th packet sent
Sent(k) == DecodeHeader(Packets[k].bytes)

\* C12: the k-th packet sent, of any kind, carries seq = 1000 * k, and no two
\* packets sent carry the same seq.
C12_SeqIsThousandTimesK ==
    /\ \A k \in 1..Len(Packets) : Sent(k).seq = 1000 * k
    /\ \A i, j \in 1..Len(Packets) : i # j => Sent(i).seq # Sent(j).seq

\* C12 witness: a heartbeat and a fire-and-forget command are among two or
\* more packets sent.
C12_Witness ==
    /\ Len(Packets) >= 2
    /\ \E i, j \in 1..Len(Packets) :
          /\ Sent(i).cmd = 0
          /\ Sent(j).cmd \in {1, 4, 6, 10, 11, 901}

\* the cmd of the packet each kind of request is sent with
CmdOf(kind) ==
    CASE kind = "hello"     -> 3
      [] kind = "processes" -> 5
      [] kind = "threads"   -> 7
      [] kind = "memlayout" -> 8
      [] kind = "memory"    -> 9
      [] kind = "handle"    -> 12

RequestKinds == {"hello", "processes", "threads", "memlayout", "memory", "handle"}

\* C13: every request/response command registers its entry under the seq of
\* its own packet plus 1000: each packet of such a command has its entry
\* there, and each entry has its packet 1000 below its key.
C13_KeyIsSeqPlusThousand ==
    /\ \A i \in 1..Len(Packets) :
          \A kind \in RequestKinds :
              Sent(i).cmd = CmdOf(kind) =>
                  /\ Sent(i).seq + 1000 \in DOMAIN promises
                  /\ promises[Sent(i).seq + 1000].type = kind
    /\ \A k \in DOMAIN promises :
          /\ promises[k].type \in RequestKinds
          /\ \E i \in 1..Len(Packets) :
                /\ Sent(i).seq + 1000 = k
                /\ Sent(i).cmd = CmdOf(promises[k].type)

\* C13 witness: two requests of different kinds are registered.
C13_Witness ==
    /\ DOMAIN promises = {2000, 3000}
    /\ promises[2000].type = "threads"
    /\ promises[3000].type = "handle"

\* a tick of the heartbeat timer is taken by this step
Tick == Len(beats') = Len(beats) + 1

\* the last socket write is a packet of (type 0, cmd 0) with no arguments and
\* payloadLength 0
BareHeartbeat(w) ==
    /\ w # <<>>
    /\ w[Len(w)].part = "header"
    /\ LET h == DecodeHeader(w[Len(w)].bytes)
       IN  /\ h.type = 0
           /\ h.cmd = 0
           /\ h.dataLen = 0
           /\ \A i \in 1..MaxArgs : h.args[i] = 0

\* C17: of two or more consecutive heartbeat ticks with no cmd-0 frame
\* dispatched in between, the first sends exactly one packet, a (type 0,
\* cmd 0) frame with no arguments and payloadLength 0, and each later tick
\* sends nothing and leaves the sequence counter as it is.
C17_OnePacketPerUnackedTicks ==
    [][Tick =>
         IF beats = <<>>
         THEN /\ Len(written') = Len(written) + 1
              /\ BareHeartbeat(written')
              /\ beats' = <<"sent">>
         ELSE /\ written' = written
              /\ seqNumber' = seqNumber
              /\ beats'[Len(beats')] = "skipped"]_vars

\* C17 witness: a second tick came with no cmd-0 frame since the first, and
\* the one heartbeat packet is the last packet written.
C17_Witness ==
    /\ beats = <<"sent", "skipped">>
    /\ BareHeartbeat(written)
    /\ Len(Packets) = 2

-----------------------------------------------------------------------------
(* Properties of the Request Table and the decode loop, under Spec *)

\* the frames dispatched by this step (at most one)
DispatchedNow == {dispatched'[i] : i \in (Len(dispatched) + 1)..Len(dispatched')}

\* frame f is correlated to the request registered under key k
Correlated(k, f) ==
    \/ f.cmd = 0 /\ f.seq = k
    \/ f.cmd = 9 /\ f.seq + ReadMemoryOffset = k

\* frame f carries the result of the request registered under key k
Answers(k, f) ==
    IF requests[k].type = "memory"
    THEN f.cmd = 9 /\ f.seq + ReadMemoryOffset = k
    ELSE f.cmd = 0 /\ f.seq = k

\* the connection closes in this step: the socket's close event, or the
\* socket is ended by disconnect()
Closes ==
    \/ ~sock.closed /\ sock'.closed
    \/ ~sock.ended /\ sock'.ended

\* C1: when the socket closes, every request still in the Request Table is
\* rejected with the connection-closed error.
C1_CloseRejectsPending ==
    [][(~sock.closed /\ sock'.closed) =>
         \A k \in DOMAIN promises :
             /\ requests'[k].state = "rejected"
             /\ requests'[k].error = ConnectionClosed]_vars

\* frame f is a well-formed response to the request registered under key k:
\* a text reply its parser accepts, or the data frame of a memory read
Response(k, f) ==
    \/ /\ f.cmd = 0 /\ f.seq = k
       /\ dispatchText(requests[k].type, linesOf(f.data)).act \in {"resolve", "none"}
    \/ /\ f.cmd = 9 /\ f.seq + ReadMemoryOffset = k
       /\ requests[k].type = "memory" /\ f.data # <<>>

\* the two frames of one memory read come data first: every dispatched text
\* reply to a memory read follows a data frame of that read
DataBeforeTail ==
    \A j \in 1..Len(dispatched) :
        (/\ dispatched[j].cmd = 0
         /\ dispatched[j].seq \in DOMAIN requests
         /\ requests[dispatched[j].seq].type = "memory")
        => \E i \in 1..(j - 1) :
               /\ dispatched[i].cmd = 9
               /\ dispatched[i].seq + ReadMemoryOffset = dispatched[j].seq

\* C2: when all requests were issued before the device sent anything and the
\* device sends nothing but their responses, the responses of different
\* requests in any order, every request whose response has been dispatched
\* is settled, and a settled request was settled by a frame correlated to it.
C2_SettledByOwnResponse ==
    (/\ \A k \in DOMAIN requests : requests[k].sentBefore = 0
     /\ \A i \in 1..Len(dispatched) :
            \E k \in DOMAIN requests : Response(k, dispatched[i])
     /\ DataBeforeTail)
    => \A k \in DOMAIN requests :
           /\ (\E i \in 1..Len(dispatched) : Answers(k, dispatched[i]))
                  => requests[k].state # "pending"
           /\ requests[k].state # "pending"
                  => Correlated(k, dispatched[requests[k].by])

\* C3: an entry leaves the Request Table only in a step that dispatches a
\* frame correlated to it or that closes the connection.
C3_EntryLeavesOnlyOnOwnFrame ==
    [][\A k \in DOMAIN promises :
           k \notin DOMAIN promises'
               => \/ Closes
                  \/ \E f \in DispatchedNow : Correlated(k, f)]_vars

\* the cmd-0 frame f is matched to the pending request under its seq and its
\* payload is not accepted by the parser of that request
Malformed(f) ==
    /\ f.cmd = 0
    /\ f.seq \in DOMAIN promises
    /\ requests[f.seq].state = "pending"
    /\ dispatchText(promises[f.seq].type, linesOf(f.data)).act \in {"reject", "throw"}

\* C4: when a dispatched payload violates its parser's grammar, the matched
\* request is rejected, every other entry stays in the table unsettled, the
\* connection is not closed and the decode loop goes on.
C4_ParseFailureIsLocal ==
    [][\A f \in DispatchedNow :
           Malformed(f) =>
               /\ requests'[f.seq].state = "rejected"
               /\ \A k \in DOMAIN promises \ {f.seq} :
                      k \in DOMAIN promises' /\ requests'[k] = requests[k]
               /\ ~Closes
               /\ loop'.pc # "stopped"]_vars

\* the frames the device sent after the request under key k was issued and
\* that have been dispatched
Since(k) == {i \in 1..Len(dispatched) : i > requests[k].sentBefore}

\* C5: once both the data frame (cmd 9, seq S) and the tail 'finished'
\* (cmd 0, seq S + 1000) of a read-memory request have been dispatched, in
\* either order, the request is resolved with the payload of the data frame.
C5_MemoryResolvesEitherOrder ==
    \A k \in DOMAIN requests :
        requests[k].type = "memory" =>
            \A i, j \in Since(k) :
                (/\ dispatched[i].cmd = 9
                 /\ dispatched[i].seq + ReadMemoryOffset = k
                 /\ dispatched[i].data # <<>>
                 /\ dispatched[j].cmd = 0
                 /\ dispatched[j].seq = k
                 /\ dispatched[j].data = Bytes(T_finished))
                => /\ requests[k].state = "resolved"
                   /\ requests[k].value = dispatched[i].data

\* C6: when the cmd-0 frame matched to a read-memory request is anything but
\* the one line 'finished', the request is rejected, whether or not the data
\* frame was dispatched before.
C6_BadTailFailsRead ==
    [][\A f \in DispatchedNow :
           (/\ f.cmd = 0
            /\ f.seq \in DOMAIN promises
            /\ promises[f.seq].type = "memory"
            /\ ~linesOf(f.data).null
            /\ linesOf(f.data).v # <<T_finished>>)
           => requests'[f.seq].state = "rejected"]_vars

\* handleData holds a header whose magic is wrong
BadMagicHeader ==
    /\ loop.pc = "header"
    /\ reads["loop"].state = "resolved"
    /\ DecodeHeader(reads["loop"].data).magic # Magic

\* C7: after a header with a wrong magic the frame is dropped without an
\* error and the decode loop awaits the next header.
C7_BadMagicIsSkipped ==
    [][(BadMagicHeader /\ <<loop, reads>>' # <<loop, reads>>)
          => /\ loop'.pc = "header"
             /\ reads'["loop"].length = HeaderLen
             /\ ~Closes]_vars

\* C14: for every registered request the resolve and reject callbacks are
\* invoked at most once in total (stated for the memory reads).
C14_SettledAtMostOnce ==
    \A k \in DOMAIN requests :
        requests[k].type = "memory" => requests[k].calls <= 1

\* C15: right after the dispatch of a frame that matched an entry and
\* resolved or rejected it, cmd 0 or cmd 9, the entry is not in the table
\* (stated for the entries of memory reads).
C15_MatchedEntryRemoved ==
    [][\A f \in DispatchedNow :
           \A k \in DOMAIN promises :
               (/\ promises[k].type = "memory"
                /\ Correlated(k, f)
                /\ requests'[k].calls > requests[k].calls)
               => k \notin DOMAIN promises']_vars

\* the number of ticks since the last cmd-0 frame that sent a heartbeat
InFlight == Cardinality({i \in 1..Len(beats) : beats[i] = "sent"})

\* C16: at most one unacknowledged heartbeat is in flight: of the heartbeat
\* ticks since the last cmd-0 frame was dispatched (since the start, if there
\* was none) at most one has sent a packet.
C16_OneHeartbeatInFlight == InFlight <= 1

\* C16 witness: a heartbeat was sent, a cmd-0 frame acknowledged it, a second
\* heartbeat is in flight and the next tick was skipped.
C16_Witness ==
    /\ beats = <<"sent", "skipped">>
    /\ Len(Packets) = 2
    /\ Sent(1).cmd = 0
    /\ Sent(2).cmd = 0
    /\ \E i \in 1..Len(dispatched) : dispatched[i].cmd = 0

\* the connection has closed: disconnect() has ended the socket, or the
\* socket's close event has come
Closed == sock.ended \/ sock.closed

\* handleData has a continuation to run (the promise it awaits has settled)
LoopRunnable == loop.pc # "stopped" /\ reads["loop"].state # "pending"

\* C18: once the connection has closed, by disconnect(), by a remote close or
\* by a failure of the decode loop, and handleData has run what it had to
\* run, the heartbeat timer is not running (so no heartbeat is sent any more).
C18_TimerClearedOnceClosed ==
    (Closed /\ ~LoopRunnable) => heartbeatId # "running"

-----------------------------------------------------------------------------
(* Properties of search, under SpecSearch *)

\* the i-th read resolved with a buffer whose first word is the value sought
Matches(i) ==
    /\ scan.got[i].ok
    /\ InView(scan.got[i].value, 0)
    /\ getUint32(scan.got[i].value, 0) = scan.value

\* the positions in the locations list whose read matched
Hit == {i \in 1..Len(scan.locations) : Matches(i)}

\* the rank of i among the numbers of S
Rank(S, i) == Cardinality({j \in S : j <= i})

\* C19: search called with a locations list reads 4 bytes at each location,
\* in order, and returns exactly the locations whose read decodes, as a
\* little-endian word, to the value sought, in the order of the list.
C19_LocationsThatMatch ==
    (scan.pc = "returned" /\ scan.given) =>
        /\ scan.asked = [i \in 1..Len(scan.locations) |->
                            [addr |-> scan.locations[i], size |-> 4]]
        /\ Len(scan.got) = Len(scan.locations)
        /\ Len(scan.res) = Cardinality(Hit)
        /\ \A i \in Hit : scan.res[Rank(Hit, i)] = scan.locations[i]

\* C19 witness: the reads of two locations returned 01 00 00 00 and
\* 02 00 00 00, the value sought is 1, and the first location is returned.
C19_Witness ==
    /\ scan.pc = "returned"
    /\ scan.given
    /\ scan.value = 1
    /\ scan.locations = <<16, 64>>
    /\ scan.got = <<[ok |-> TRUE, value |-> <<1, 0, 0, 0>>],
                    [ok |-> TRUE, value |-> <<2, 0, 0, 0>>]>>
    /\ scan.res = <<16>>

\* the addresses start + o of the aligned offsets o of buf that hold a whole
\* word equal to value, by increasing offset
AddressesIn(buf, start, value) ==
    LET offsets == [j \in 1..(Len(buf) \div 4) |-> 4 * (j - 1)]
        hits    == SelectSeq(offsets, LAMBDA o : getUint32(buf, o) = value)
    IN  [j \in 1..Len(hits) |-> start + hits[j]]

\* the addresses found in the first k regions of the memory map
RECURSIVE Found(_)
Found(k) ==
    IF k = 0 THEN <<>>
    ELSE Found(k - 1) \o AddressesIn(scan.got[k].value, scan.memorymap[k].start,
                                      scan.value)

\* C20: search called without locations, when the memory map and every
\* region read were delivered, returns the addresses of the matching aligned
\* words of every region, in map order and by increasing offset, and no
\* other address, whatever the lengths of the buffers returned.
C20_EveryBufferLengthScanned ==
    (/\ scan.pc \in {"returned", "failed"}
     /\ ~scan.given
     /\ scan.error # "rejected")
    => /\ scan.pc = "returned"
       /\ scan.res = Found(Len(scan.memorymap))

\* a request issued by search was rejected: getMemlayout or a readMemory
RequestFailed ==
    \/ scan.layout = "rejected"
    \/ \E i \in 1..Len(scan.got) : ~scan.got[i].ok

\* C21: if a request issued by search fails, the memory-map request or a
\* read, the promise of search is rejected with that error and is never
\* resolved with a list, and search does nothing more.
C21_FailureFailsSearch ==
    /\ [](RequestFailed => (scan.pc = "failed" /\ scan.error = "rejected"))
    /\ [][scan.pc = "failed" => scan' = scan]_vars

\* C21 witness: the first read matched and the second was rejected; the
\* search has failed although an address had been collected.
C21_Witness ==
    /\ scan.pc = "failed"
    /\ scan.res # <<>>
    /\ Len(scan.got) = 2
    /\ scan.got[1].ok
    /\ ~scan.got[2].ok

\* C22: at most one read issued by search is outstanding: a read is asked
\* for only when every read asked for before has settled.
C22_OneReadOutstanding ==
    /\ [](Len(scan.asked) - Len(scan.got) \in {0, 1})
    /\ [][Len(scan.asked') > Len(scan.asked)
            => /\ Len(scan.asked') = Len(scan.asked) + 1
               /\ Len(scan.got') = Len(scan.asked)]_vars

\* C22 witness: the second read is outstanding, the first has settled.
C22_Witness ==
    /\ Len(scan.asked) = 2
    /\ Len(scan.got) = 1
    /\ scan.pc \in {"location", "region"}

-----------------------------------------------------------------------------
(* Properties of the connection, under Spec *)

\* handleData has handled a frame in this step and goes on (connectedCallback
\* is called after handlePacket has returned)
Established ==
    /\ Len(dispatched') > Len(dispatched)
    /\ loop'.pc # "stopped"

\* the socket's close event comes in this step
SocketCloses == ~sock.closed /\ sock'.closed

\* C23: the promise of connectNTR resolves (to the client) when the
\* connection is established, which is when handleData has handled the first
\* frame; it is rejected with 'Connection could not be established.' when the
\* socket closes before that; it settles in no other way, and once.
C23_ConnectNTRSettles ==
    [][/\ (connectNTR.state = "pending" /\ Established)
            => (connectNTR'.state = "resolved" /\ connectNTR'.connected)
       /\ (connectNTR.state = "pending" /\ SocketCloses)
            => /\ connectNTR'.state = "rejected"
               /\ connectNTR'.error = "Connection could not be established."
       /\ (connectNTR.state = "pending" /\ ~Established /\ ~SocketCloses)
            => connectNTR'.state = "pending"
       /\ connectNTR.state # "pending" => connectNTR'.state = connectNTR.state]_vars

\* C23 witness: the promise was resolved when the first frame was handled,
\* and the close of the socket after that has not rejected it.
C23_Witness ==
    /\ connectNTR.state = "resolved"
    /\ dispatched # <<>>
    /\ sock.closed

\* C24: a request that was pending when disconnect() was called is not
\* resolved with a result afterwards, even if its response frame still
\* arrives.
C24_NoResultAfterDisconnect ==
    \A k \in sock.atEnd :
        ~(/\ requests[k].state = "resolved"
          /\ Answers(k, dispatched[requests[k].by]))

-----------------------------------------------------------------------------
(* Property of the commands, under SpecSend *)

\* this step adds to the Request Table one entry, of the given kind, and
\* leaves the other entries as they are
AddsOne(kind) ==
    \E k \in DOMAIN promises' \ DOMAIN promises :
        /\ DOMAIN promises' = DOMAIN promises \cup {k}
        /\ promises'[k].type = kind
        /\ \A j \in DOMAIN promises : promises'[j] = promises[j]

\* C30: reload, addBreakpoint, enableBreakpoint, disableBreakpoint, resume,
\* attachToProcess, writeMemory, saveFile and remoteplay leave the Request
\* Table as it is; hello, listProcesses, listThreads, getMemlayout,
\* queryHandle and readMemory each add exactly one entry, of kind hello,
\* processes, threads, memlayout, handle and memory respectively.
C30_CommandsAndTheTable ==
    [][/\ (\/ Reload \/ AddBreakpoint \/ EnableBreakpoint \/ DisableBreakpoint
           \/ Resume \/ AttachToProcess \/ WriteMemory \/ SaveFile \/ Remoteplay)
          => promises' = promises
       /\ Hello => AddsOne("hello")
       /\ ListProcesses => AddsOne("processes")
       /\ ListThreads => AddsOne("threads")
       /\ GetMemlayout => AddsOne("memlayout")
       /\ QueryHandle => AddsOne("handle")
       /\ ReadMemory => AddsOne("memory")]_vars

\* C30 witness: a fire-and-forget packet (reload, cmd 4) and a request
\* (getMemlayout, cmd 8) have been written, and the table holds the one
\* entry of the request
C30_Witness ==
    /\ \E i \in 1..Len(written) :
          written[i].part = "header" /\ DecodeHeader(written[i].bytes).cmd = 4
    /\ \E i \in 1..Len(written) :
          written[i].part = "header" /\ DecodeHeader(written[i].bytes).cmd = 8
    /\ \E k \in DOMAIN promises :
          DOMAIN promises = {k} /\ promises[k].type = "memlayout"

-----------------------------------------------------------------------------
(* Properties of the parsers, under SpecParse *)

\* C25: for every response kind, a payload that does not follow the grammar
\* of its kind, a payload without a non-empty line included, is answered by
\* its parser with a rejection of the matched request: no exception leaves
\* the parser and the request is not left without an answer.  (A payload
\* out of the grammar that a parser accepts is the matter of C28.)
C25_MalformedIsRejected ==
    (call.fn # "" /\ ~call.valid) => call.out.act \in {"reject", "resolve"}

\* C26: the process-list parser resolves exactly when the last line is
\* 'end of process list.' and every line before it is a process line, with
\* one descriptor per such line in the order of the lines; in every other
\* case it rejects and yields no descriptor.
C26_ProcessListIff ==
    call.fn = "processes" =>
        IF call.valid
        THEN call.out.act = "resolve" /\ call.out.value = call.expected
        ELSE call.out.act = "reject" /\ call.out.value = <<>>

\* C27: the memory-layout parser resolves exactly when the first line is
\* 'valid memregions:', the last line is 'end of memlayout.' and every line
\* between them is a region line, with one region {start, end, size} per
\* such line in the order of the lines; otherwise it rejects with no result.
C27_MemlayoutIff ==
    call.fn = "memlayout" =>
        IF call.valid
        THEN call.out.act = "resolve" /\ call.out.value = call.expected
        ELSE call.out.act = "reject" /\ call.out.value = <<>>

\* a layout of two different regions has been parsed
C27_Witness ==
    /\ call.fn = "memlayout" /\ call.valid
    /\ call.out.act = "resolve"
    /\ Len(call.out.value) = 2 /\ call.out.value[1] # call.out.value[2]

\* C28: the thread-list parser resolves exactly when the lines are runs of
\* three lines (tid line, pc/lr line, register line of 32 words), then
\* 'recommend pc:', lines of 8 hex digits, 'recommend lr:', lines of 8 hex
\* digits, and nothing more, with threads, recommendedPc and recommendedLr
\* in the order of the lines; every other sequence of lines is rejected.
C28_ThreadListIff ==
    call.fn = "threads" =>
        IF call.valid
        THEN call.out.act = "resolve" /\ call.out.value = call.expected
        ELSE call.out.act = "reject" /\ call.out.value = <<>>

-----------------------------------------------------------------------------
(* Property of the frame codec, under SpecCodec *)

\* C29: the 84 bytes sendPacket writes decode, with the header decoder of
\* handleData, to the same seq, type, cmd and payload length, to the given
\* arguments in the first slots and to zero in the other slots; arguments
\* after the 16th are dropped and do not reach the payload length.
C29_RoundTrip ==
    call.fn = "decodeHeader" =>
        /\ call.out.act = "resolve"
        /\ call.out.value = call.expected

-----------------------------------------------------------------------------
(* Property of remoteplay, under SpecSend *)

\* C31: a packet of remoteplay (type 0, cmd 901) carries in its arguments
\* the packed priority (priorityMode << 8 | priorityFactor), the quality,
\* and the bandwidth qosValue * 1024 * 1024 / 8.
C31_RemoteplayArguments ==
    \A k \in 1..Len(Packets) :
        Sent(k).cmd = 901 =>
            /\ Sent(k).type = 0
            /\ \E p \in Priorities, qosValue \in QosValues :
                  /\ Sent(k).args[1] = BitOr(p[1] * 256, p[2])
                  /\ Sent(k).args[2] = 90
                  /\ Sent(k).args[3] = num(qosValue)

-----------------------------------------------------------------------------
(* Properties of the dispatch of one frame, under Spec *)

\* the key of the Request Table a frame is correlated to
KeyOf(f) == IF f.cmd = 9 THEN f.seq + ReadMemoryOffset ELSE f.seq

\* C32: the callbacks of an entry are invoked only in a step that dispatches
\* a frame correlated to its key: a cmd-0 frame with that seq, or a cmd-9
\* frame with that seq minus 1000.
C32_OnlyOwnEntryCalled ==
    [][\A k \in DOMAIN requests :
           requests'[k].calls # requests[k].calls
               => \E f \in DispatchedNow : Correlated(k, f)]_vars

\* C32 witness: of two requests, a memory read has been called back by a
\* cmd-9 frame and the other request has not been called back.
C32_Witness ==
    \E k, j \in DOMAIN requests :
        /\ k # j
        /\ requests[k].type = "memory" /\ requests[k].calls = 1
        /\ dispatched[requests[k].by].cmd = 9
        /\ requests[j].calls = 0

\* C33: a cmd-0 or cmd-9 frame whose correlated key has no entry in the
\* Request Table is ignored: no callback is invoked and the table is left
\* as it is; a cmd-0 frame sets the heartbeat flag and changes nothing else.
C33_UnmatchedFrameIgnored ==
    [][\A f \in DispatchedNow :
           (f.cmd \in {0, 9} /\ KeyOf(f) \notin DOMAIN promises)
               => /\ promises' = promises
                  /\ requests' = requests
                  /\ canSendHeartbeat' = (IF f.cmd = 0 THEN TRUE ELSE canSendHeartbeat)]_vars

\* C34: the dispatch of a frame whose cmd is neither 0 nor 9 changes
\* nothing: the Request Table, the heartbeat flag and the sequence counter
\* stay as they are and no callback is invoked.
C34_OtherCmdDropped ==
    [][\A f \in DispatchedNow :
           f.cmd \notin {0, 9}
               => /\ promises' = promises
                  /\ requests' = requests
                  /\ canSendHeartbeat' = canSendHeartbeat
                  /\ seqNumber' = seqNumber]_vars

-----------------------------------------------------------------------------
(* Properties of the decode loop, under Spec *)

IsPrefix(s, t) == Len(s) <= Len(t) /\ SubSeq(t, 1, Len(s)) = s

\* the header of a frame of the device: type 0 and no arguments
StreamHeader(seq, cmd, dataLen) ==
    LE32(Magic) \o LE32(seq) \o LE32(0) \o LE32(cmd)
        \o [i \in 1..(WordLen * MaxArgs) |-> 0] \o LE32(dataLen)

\* the bytes of frame f on the stream
FrameBytes(f) == StreamHeader(f.seq, f.cmd, Len(f.data)) \o f.data

\* the bytes the read of the decode loop has resolved with and that the loop
\* has not looked at yet
Held == IF reads["loop"].state = "resolved" THEN reads["loop"].data ELSE <<>>

\* the bytes of the stream that belong to frames not yet dispatched, in
\* stream order: the header of the frame whose payload is awaited, the
\* bytes held by the loop, the bytes in the reassembler and those in flight
Ahead ==
    (IF loop.pc = "payload"
     THEN StreamHeader(loop.seq, loop.cmd, reads["loop"].length)
     ELSE <<>>)
    \o Held \o currentBuffer \o wire

\* C35: a frame is dispatched with exactly the bytes that follow its header
\* on the stream, as many as the header declares, and the next header is
\* read from the bytes after them: every dispatch takes one whole frame from
\* the front of the stream not yet dispatched, frames are dispatched one at
\* a time, and no other step takes bytes from that front, however the
\* stream is cut into chunks.
C35_FramesInStreamOrder ==
    [][(loop.pc # "stopped" /\ <<loop, reads, currentBuffer, wire>>' # <<loop, reads, currentBuffer, wire>>) =>
         /\ Len(dispatched') <= Len(dispatched) + 1
         /\ \A f \in DispatchedNow :
               /\ IsPrefix(FrameBytes(f), Ahead)
               /\ loop'.pc # "stopped" => Ahead' = Drop(Ahead, Len(FrameBytes(f)))
         /\ (DispatchedNow = {} /\ loop'.pc # "stopped") => IsPrefix(Ahead, Ahead')]_vars

\* C35 witness: a frame with a payload, then a second frame, have been
\* dispatched, and the loop awaits the next header.
C35_Witness ==
    /\ Len(dispatched) = 2
    /\ dispatched[1].data # <<>>
    /\ loop.pc = "header"

\* C36: there is one decode loop: the client has at most one read
\* outstanding at the socket, it is the one handleData awaits, and a step
\* dispatches at most one frame, whatever the chunks, the timer and the
\* caller do.
C36_OneDecodeLoop ==
    /\ [](/\ DOMAIN reads = {"loop"}
          /\ Len(nextPromises) <= 1
          /\ \A i \in 1..Len(nextPromises) :
                /\ nextPromises[i].id = "loop"
                /\ nextPromises[i].length = reads["loop"].length
                /\ reads["loop"].state = "pending"
                /\ loop.pc # "stopped"
          /\ (reads["loop"].state = "pending" /\ ~disconnected)
                => Len(nextPromises) = 1)
    /\ [][Len(dispatched') <= Len(dispatched) + 1]_vars

\* C36 witness: the loop waits for the payload of the second frame while a
\* request of the caller and a heartbeat are on their way
C36_Witness ==
    /\ Len(nextPromises) = 1
    /\ loop.pc = "payload"
    /\ Len(dispatched) = 1
    /\ beats # <<>>
    /\ promises # <<>>

\* connectedCallback is called in this step (the field is cleared by the call)
CallbackInvoked == connectedCallback /\ ~connectedCallback'

\* C38: connectedCallback is called in the step that dispatches the first
\* frame (a frame with the right magic: no other is dispatched), in no other
\* step, and the field, once cleared, stays cleared.
C38_CallbackOnceAfterFirstFrame ==
    [][/\ CallbackInvoked <=> (dispatched = <<>> /\ dispatched' # <<>>)
       /\ ~connectedCallback => ~connectedCallback']_vars

-----------------------------------------------------------------------------
(* The writes of a command, under SpecWrite *)

\* C37: the header of writeMemory is followed at once, in the writes that
\* reach the socket, by its data, and the header of saveFile by the name
\* field of 200 bytes and then its data, the lengths adding up to the length
\* the header announces: no write of the timer or of another command comes
\* between them, whatever the device sends meanwhile.
C37_PayloadFollowsHeader ==
    \A i \in 1..Len(written) :
        written[i].part = "header" =>
            \E h \in {DecodeHeader(written[i].bytes)} :
                /\ h.cmd = 10 =>
                      /\ i + 1 <= Len(written)
                      /\ written[i + 1].part = "data"
                      /\ Len(written[i + 1].bytes) = h.dataLen
                /\ h.cmd = 1 =>
                      /\ i + 2 <= Len(written)
                      /\ written[i + 1].part = "name"
                      /\ Len(written[i + 1].bytes) = NameLen
                      /\ written[i + 2].part = "data"
                      /\ NameLen + Len(written[i + 2].bytes) = h.dataLen
                /\ h.cmd \notin {1, 10} =>
                      (i + 1 <= Len(written) => written[i + 1].part = "header")

\* C37 witness: saveFile has written its header, the name and two bytes of
\* data, the timer has then sent a heartbeat, and a frame of the device has
\* been dispatched meanwhile
C37_Witness ==
    /\ Len(written) = 4
    /\ written[1].part = "header"
    /\ DecodeHeader(written[1].bytes).cmd = 1
    /\ written[2].part = "name"
    /\ Len(written[3].bytes) = 2
    /\ written[4].part = "header"
    /\ DecodeHeader(written[4].bytes).cmd = 0
    /\ dispatched # <<>>

-----------------------------------------------------------------------------
(* Liveness of the heartbeat, under SpecLive *)

\* C39: on a connection that stays open, with the timer ticking and every
\* heartbeat answered by a well-formed cmd-0 frame, the flag that permits a
\* heartbeat does not stay false for ever: whenever it is false it becomes
\* true again.
C39_HeartbeatLiveness == ~canSendHeartbeat ~> canSendHeartbeat

=============================================================================
